---- MODULE Spec2Model ----
(***************************************************************************)
(* Who Stole the Sun: the scene table, its binary scene file, the editor   *)
(* operations on the table and the game-state stack, as a state machine.   *)
(*                                                                         *)
(* Conventions.  The objects array is a function on 0..MaxObjects-1; all   *)
(* of its slots are state, also those at or above numObjects, because the  *)
(* code leaves data behind in them and later reads it.  A pointer into the *)
(* array is the index of its slot, NullIndex is the null pointer.  An      *)
(* asset handle is the path the asset cache keeps it under, NULL is the    *)
(* null handle; refs is the cache's count of acquires not yet released.    *)
(* Floating-point fields hold integers.                                    *)
(***************************************************************************)
EXTENDS Integers, Sequences, FiniteSets, TLC

VARIABLES
    objects,                 \* Object objects[...]
    numObjects,              \* int numObjects
    refs,                    \* asset cache: path -> acquires not yet released
    disk,                    \* file system: scene path -> file contents
    lastSavedOrLoadedScene,  \* char lastSavedOrLoadedScene[256]
    logged,                  \* the last line LogError / LogInfo wrote
    selectedObject,          \* Editor_Render: static Object *selectedObject
    ub,                      \* the program has read or written outside the array
    edits,                   \* property-panel inputs handled so far
    writes,                  \* successful SaveFileData calls so far
    saved,                   \* the table SaveScene last wrote, and the path
    stack,                   \* the game-state stack, bottom first
    talkingObject,           \* Object *talkingObject
    paragraphIndex,          \* int paragraphIndex
    commandIndex,            \* script->commandIndex, per script asset
    cameraTrauma,            \* float cameraTrauma, in 600ths
    cameraTraumaFalloff,     \* float cameraTraumaFalloff, in 600ths
    devMode,                 \* bool devMode
    playingView,             \* the scene as Playing_Update or the console last left it
    lastCommand              \* the command the console ran in the last step, and its result

sceneVars == <<objects, numObjects, refs, disk, lastSavedOrLoadedScene, logged,
               selectedObject, ub, edits, writes, saved>>
gameVars == <<stack, talkingObject, paragraphIndex, commandIndex, cameraTrauma,
              cameraTraumaFalloff, devMode, playingView>>
vars == <<objects, numObjects, refs, disk, lastSavedOrLoadedScene, logged,
          selectedObject, ub, edits, writes, saved, stack, talkingObject, paragraphIndex, commandIndex,
          cameraTrauma, cameraTraumaFalloff, devMode, playingView, lastCommand>>

(***************************************************************************)
(* Bounds of the model and constants of the program.                       *)
(***************************************************************************)
\* Slots of the objects array the model keeps (the array has 100).
MaxObjects == 3
\* No action takes an asset's reference count above this.
MaxRefs == 4
\* Inputs to the property panel of the editor in one run.
MaxEdits == 1
\* Scene files written in one run.
MaxWrites == 1

DIRECTION_ENUM_COUNT == 8
COUNTOF_expressions == 10
SCENE_VERSION == 2
SIZEOF_name == 50
SIZEOF_expression_name == 32
SIZEOF_lastSavedOrLoadedScene == 256
DEFAULT_SPEED == 10

SCENE_MAGIC == "KEKW"
NULL == "<null>"
NullIndex == -1

Directions == 0 .. DIRECTION_ENUM_COUNT - 1
ExpressionSlots == 0 .. COUNTOF_expressions - 1
Slots == 0 .. MaxObjects - 1

\* The asset files that exist, by the kind of asset an Acquire call loads.
ScriptFiles == {"talk.txt", "empty.txt"}
CollisionMapFiles == {"map.png"}
SpriteFiles == {"npc"}
\* A sprite of a single frame, which no scene file names.
StillFiles == {"still"}
TextureFiles == {"face.png"}
AssetFiles ==
    ScriptFiles \cup CollisionMapFiles \cup SpriteFiles \cup StillFiles \cup TextureFiles

Min(a, b) == IF a < b THEN a ELSE b

(***************************************************************************)
(* Strings.                                                                *)
(***************************************************************************)
\* CopyString(dest, src, size): at most size-1 characters fit before the 0.
CopyString(src, size) == SubSeq(src, 1, Min(Len(src), size - 1))

DigitChars == <<"0", "1", "2", "3", "4", "5", "6", "7", "8", "9">>

RECURSIVE FormatInt(_)
\* "%d" of a non-negative int.
FormatInt(n) == IF n < 10 THEN DigitChars[n + 1]
                ELSE FormatInt(n \div 10) \o DigitChars[(n % 10) + 1]

\* FormatString(dest, size, "%s%d", text, n)
FormatString(size, text, n) == CopyString(text \o FormatInt(n), size)

(***************************************************************************)
(* The asset cache.                                                        *)
(***************************************************************************)
\* The handle an Acquire call returns: a missing file, or "", gives NULL.
AcquireScript(path) == IF path \in ScriptFiles THEN path ELSE NULL
AcquireCollisionMap(path) == IF path \in CollisionMapFiles THEN path ELSE NULL
AcquireSprite(path) == IF path \in SpriteFiles \cup StillFiles THEN path ELSE NULL
AcquireTexture(path) == IF path \in TextureFiles THEN path ELSE NULL

GetAssetPath(handle) == IF handle = NULL THEN "" ELSE handle

Occurrences(seq, a) == Cardinality({k \in DOMAIN seq : seq[k] = a})

\* The counts after one acquire (CloneAsset, Acquire...) per handle of `handles`.
AcquireAll(rf, handles) == [a \in DOMAIN rf |-> rf[a] + Occurrences(handles, a)]

\* The counts after one ReleaseAsset per handle of `handles`; NULL is ignored.
ReleaseAll(rf, handles) == [a \in DOMAIN rf |-> rf[a] - Occurrences(handles, a)]

(***************************************************************************)
(* Objects.                                                                *)
(***************************************************************************)
Vec(x, y) == [x |-> x, y |-> y]

\* A MotionMaster of zero bytes (after ZeroBytes / memset).
ZeroMotionMaster ==
    [currentPoint |-> Vec(0, 0), isMoving |-> FALSE, startPoint |-> Vec(0, 0),
     endPoint |-> Vec(0, 0), motionTime |-> 0, arrivalTime |-> 0, speed |-> 0]

\* A MotionMaster as constructed: the default member initialisers.
DefaultMotionMaster == [ZeroMotionMaster EXCEPT !.speed = DEFAULT_SPEED]

ZeroExpression == [name |-> "", portrait |-> NULL]

\* An Object of zero bytes.
ZeroObject ==
    [name |-> "", position |-> Vec(0, 0), zOffset |-> 0, direction |-> 0,
     sprites |-> [d \in Directions |-> NULL], animationFps |-> 0,
     animationTimeAccumulator |-> 0, animationFrame |-> 0, collisionMap |-> NULL,
     script |-> NULL, numExpressions |-> 0,
     expressions |-> [j \in ExpressionSlots |-> ZeroExpression],
     motionMaster |-> ZeroMotionMaster]

\* An Object of the static array before GameInit.
StaticObject == [ZeroObject EXCEPT !.motionMaster = DefaultMotionMaster]

\* The handles Destroy releases and Clone re-acquires, in the code's order.
OwnedHandles(o) ==
    <<o.script, o.collisionMap>>
    \o [k \in 1 .. o.numExpressions |-> o.expressions[k - 1].portrait]
    \o [k \in 1 .. DIRECTION_ENUM_COUNT |-> o.sprites[k - 1]]

\* Clone(from, to): the bytes of `from`, each owned handle acquired once more.
Clone(rf, from) == [object |-> from, refs |-> AcquireAll(rf, OwnedHandles(from))]

\* Destroy(object): the owned handles released, the record zero-filled.
Destroy(rf, o) == [object |-> ZeroObject, refs |-> ReleaseAll(rf, OwnedHandles(o))]

(***************************************************************************)
(* The scene file.  A file is the sequence of the values written to it:    *)
(* WriteBytes / WriteInt / WriteFloat / WriteString append one value, the  *)
(* Read calls take the value at the cursor and advance it.                 *)
(***************************************************************************)
NoFile == <<>>
Unreadable == <<"unreadable">>

\* Values per object: name, 4 floats, direction, script, collision map, one
\* sprite path per direction, a name and a portrait path per expression slot.
ObjectTokens == 8 + DIRECTION_ENUM_COUNT + 2 * COUNTOF_expressions

\* A plausible slip: zOffset and animationFps written in the other order.
ObjectBytesFloatsSwapped(o) ==
    <<o.name, o.position.x, o.position.y, o.animationFps, o.zOffset, o.direction,
      GetAssetPath(o.script), GetAssetPath(o.collisionMap)>>
    \o [k \in 1 .. DIRECTION_ENUM_COUNT |-> GetAssetPath(o.sprites[k - 1])]
    \o [k \in 1 .. 2 * COUNTOF_expressions |->
          IF k % 2 = 1 THEN o.expressions[(k - 1) \div 2].name
          ELSE GetAssetPath(o.expressions[(k - 1) \div 2].portrait)]

\* What SaveScene writes for one object, in the order of the writes.
ObjectBytes(o) ==
    <<o.name, o.position.x, o.position.y, o.zOffset, o.animationFps, o.direction,
      GetAssetPath(o.script), GetAssetPath(o.collisionMap)>>
    \o [k \in 1 .. DIRECTION_ENUM_COUNT |-> GetAssetPath(o.sprites[k - 1])]
    \o [k \in 1 .. 2 * COUNTOF_expressions |->
          IF k % 2 = 1 THEN o.expressions[(k - 1) \div 2].name
          ELSE GetAssetPath(o.expressions[(k - 1) \div 2].portrait)]

RECURSIVE SceneBytes(_, _, _)
SceneBytes(objs, i, n) ==
    IF i >= n THEN <<>> ELSE ObjectBytes(objs[i]) \o SceneBytes(objs, i + 1, n)

\* The stream SaveScene hands to SaveFileData.
SaveSceneStream(objs, n) == <<SCENE_MAGIC, SCENE_VERSION, n>> \o SceneBytes(objs, 0, n)

\* The loop body of LoadScene: the fields it assigns to the slot, read at the
\* cursor in order; every other field of the slot stays as it is.
ReadObject(slot, data, cursor) ==
    LET spritesAt == cursor + 8
        expressionsAt == cursor + 8 + DIRECTION_ENUM_COUNT
    IN [slot EXCEPT
          !.name = CopyString(data[cursor + 1], SIZEOF_name),
          !.position = Vec(data[cursor + 2], data[cursor + 3]),
          !.zOffset = data[cursor + 4],
          !.animationFps = data[cursor + 5],
          !.direction = data[cursor + 6],
          !.script = AcquireScript(data[cursor + 7]),
          !.collisionMap = AcquireCollisionMap(data[cursor + 8]),
          !.sprites = [d \in Directions |-> AcquireSprite(data[spritesAt + 1 + d])],
          !.expressions = [j \in ExpressionSlots |->
              [name |-> CopyString(data[expressionsAt + 1 + 2 * j],
                                   SIZEOF_expression_name),
               portrait |-> AcquireTexture(data[expressionsAt + 2 + 2 * j])]]]

\* The handles the loop body of LoadScene acquires for one object.
AcquiredByLoad(o) ==
    <<o.script, o.collisionMap>>
    \o [k \in 1 .. DIRECTION_ENUM_COUNT |-> o.sprites[k - 1]]
    \o [k \in 1 .. COUNTOF_expressions |-> o.expressions[k - 1].portrait]

RECURSIVE DestroyObjects(_, _, _, _)
\* for (i = 0; i < numObjects; ++i) Destroy(&objects[i]);
DestroyObjects(objs, rf, i, n) ==
    IF i >= n THEN [objects |-> objs, refs |-> rf]
    ELSE LET d == Destroy(rf, objs[i])
         IN DestroyObjects([objs EXCEPT ![i] = d.object], d.refs, i + 1, n)

RECURSIVE ReadObjects(_, _, _, _, _)
\* The loading loop of LoadScene, over the slots the array has.
ReadObjects(objs, rf, data, i, n) ==
    IF i >= n \/ i >= MaxObjects THEN [objects |-> objs, refs |-> rf]
    ELSE LET o == ReadObject(objs[i], data, 3 + i * ObjectTokens)
         IN ReadObjects([objs EXCEPT ![i] = o], AcquireAll(rf, AcquiredByLoad(o)),
                        data, i + 1, n)

\* if (version != SCENE_VERSION) ... return;
VersionMismatch(version) == version # SCENE_VERSION

\* A plausible slip: the magic is read and never compared.
MagicNeverChecked(magic) == FALSE

\* if (not BytesEqual(magic, SCENE_MAGIC, 4)) ... return;
MagicMismatch(magic) == magic # SCENE_MAGIC

LogMissing == "error: file doesn't exist"
LogUnreadable == "error: failed to load the file contents"
LogNotAScene == "error: it isn't a scene file"
LogVersion == "error: version"
LogLoaded == "info: loaded scene"
LogSaved == "info: saved scene"
LogNotSaved == "info: couldn't save scene"
LoadErrors == {LogMissing, LogUnreadable, LogNotAScene, LogVersion}

FileAt(path) == IF path \in DOMAIN disk THEN disk[path] ELSE NoFile

\* What LoadScene(path) makes of the table objs, n, the cache rf and the last-used
\* path, and what it logs; data is what LoadFileData returns for the path.  A
\* count above the array's size makes the loop write past the array.
LoadSceneResult(objs, n, rf, last, data, path) ==
    LET same == [objects |-> objs, numObjects |-> n, refs |-> rf, last |-> last,
                 ub |-> FALSE]
    IN  IF data = NoFile THEN same @@ [logged |-> LogMissing]
        ELSE IF data = Unreadable THEN same @@ [logged |-> LogUnreadable]
        ELSE IF MagicMismatch(data[1]) THEN same @@ [logged |-> LogNotAScene]
        ELSE IF VersionMismatch(data[2]) THEN same @@ [logged |-> LogVersion]
        ELSE LET wiped == DestroyObjects(objs, rf, 0, n)
                 count == data[3]
                 read == ReadObjects(wiped.objects, wiped.refs, data, 0, count)
             IN [objects |-> read.objects, numObjects |-> count, refs |-> read.refs,
                 last |-> CopyString(path, SIZEOF_lastSavedOrLoadedScene),
                 ub |-> count > MaxObjects, logged |-> LogLoaded]

LoadScene(path) ==
    LET r == LoadSceneResult(objects, numObjects, refs, lastSavedOrLoadedScene,
                             FileAt(path), path)
    IN  /\ objects' = r.objects
        /\ numObjects' = r.numObjects
        /\ refs' = r.refs
        /\ lastSavedOrLoadedScene' = r.last
        /\ ub' = r.ub
        /\ logged' = r.logged
        /\ UNCHANGED disk

\* A plausible slip: the path is recorded before SaveFileData is asked.
SaveSceneTracksFirst(path, written) ==
    /\ IF written
       THEN /\ disk' = [disk EXCEPT ![path] = SaveSceneStream(objects, numObjects)]
            /\ logged' = LogSaved
       ELSE /\ logged' = LogNotSaved
            /\ UNCHANGED disk
    /\ lastSavedOrLoadedScene' = CopyString(path, SIZEOF_lastSavedOrLoadedScene)
    /\ UNCHANGED <<objects, numObjects, refs, ub>>

\* SaveScene(path); `written` is what SaveFileData returns.
SaveScene(path, written) ==
    /\ IF written
       THEN /\ disk' = [disk EXCEPT ![path] = SaveSceneStream(objects, numObjects)]
            /\ logged' = LogSaved
            /\ lastSavedOrLoadedScene' = CopyString(path, SIZEOF_lastSavedOrLoadedScene)
       ELSE /\ logged' = LogNotSaved
            /\ UNCHANGED <<disk, lastSavedOrLoadedScene>>
    /\ UNCHANGED <<objects, numObjects, refs, ub>>

\* The console ran no command in the last step.
NoCommand == [name |-> "", returned |-> FALSE]

\* bool HandleLoadCommand(args): load [filename]
HandleLoadCommand(args) ==
    IF Len(args) > 1
    THEN UNCHANGED <<objects, numObjects, refs, lastSavedOrLoadedScene, ub, logged, disk>>
    ELSE LoadScene(IF Len(args) = 1 THEN args[1] ELSE lastSavedOrLoadedScene)

\* What HandleLoadCommand(args) returns.
HandleLoadCommandReturns(args) == Len(args) <= 1

\* bool HandleSaveCommand(args): save [filename]
HandleSaveCommand(args, written) ==
    IF Len(args) > 1
    THEN UNCHANGED <<objects, numObjects, refs, lastSavedOrLoadedScene, ub, logged, disk>>
    ELSE SaveScene(IF Len(args) = 1 THEN args[1] ELSE lastSavedOrLoadedScene, written)

\* What HandleSaveCommand(args) returns.
HandleSaveCommandReturns(args) == Len(args) <= 1

(***************************************************************************)
(* The editor (Editor_Render): the object list and the properties of the   *)
(* selected object.  One action is one widget reporting an input.          *)
(***************************************************************************)
\* A plausible slip: the "x" button of the player's row left enabled.
DeleteEnabledForAll(i) == TRUE

\* The "x" button of row 0 is disabled, KEY_DELETE asks for i > 0.
DeleteEnabled(i) == i > 0

\* The "x" button of row i, or KEY_DELETE on the selected row.
DeleteObject(i) ==
    IF DeleteEnabled(i)
    THEN LET d == Destroy(refs, objects[i])
             zeroed == [objects EXCEPT ![i] = d.object]
         IN  /\ selectedObject' = IF i = numObjects - 1
                                  THEN (IF numObjects <= 1 THEN NullIndex ELSE i - 1)
                                  ELSE selectedObject
             \* CopyBytes(&objects[i], &objects[i + 1], (numObjects - i - 1) * ...)
             /\ objects' = [k \in Slots |->
                              IF k >= i /\ k < numObjects - 1 THEN zeroed[k + 1]
                              ELSE zeroed[k]]
             /\ refs' = d.refs
             /\ numObjects' = numObjects - 1
    ELSE UNCHANGED <<selectedObject, objects, refs, numObjects>>

\* The "Clone" button of row i.
CloneObject(i) ==
    IF numObjects < MaxObjects
    THEN LET c == Clone(refs, objects[i])
         IN  \* CopyBytes(&objects[i + 2], &objects[i + 1], (numObjects - i - 1) * ...)
             /\ objects' = [k \in Slots |->
                              IF k = i + 1 THEN c.object
                              ELSE IF k >= i + 2 /\ k <= numObjects THEN objects[k - 1]
                              ELSE objects[k]]
             /\ refs' = c.refs
             /\ numObjects' = numObjects + 1
    ELSE UNCHANGED <<objects, refs, numObjects>>

\* The "+" button under the list.  COUNTOF comes from the core library: with
\* a size_t count a negative numObjects compares as a huge value and the
\* button does nothing, with an int count the write lands before the array.
AddObject ==
    IF numObjects < 0
    THEN \/ /\ ub' = TRUE
            /\ numObjects' = numObjects + 1
            /\ UNCHANGED objects
         \/ UNCHANGED <<ub, numObjects, objects>>
    ELSE IF numObjects < MaxObjects
    THEN /\ objects' = [objects EXCEPT ![numObjects] =
                          [ZeroObject EXCEPT !.name =
                              FormatString(SIZEOF_name, "Object", numObjects + 1)]]
         /\ numObjects' = numObjects + 1
         /\ UNCHANGED ub
    ELSE UNCHANGED <<ub, numObjects, objects>>

\* InputText "Script" of the selected object, Enter pressed.
SetScript(path) ==
    LET old == objects[selectedObject].script
        new == AcquireScript(path)
    IN  /\ objects' = [objects EXCEPT ![selectedObject].script = new]
        /\ refs' = AcquireAll(ReleaseAll(refs, <<old>>), <<new>>)

\* InputText "Collision map" of the selected object, Enter pressed.
SetCollisionMap(path) ==
    LET old == objects[selectedObject].collisionMap
        new == AcquireCollisionMap(path)
    IN  /\ objects' = [objects EXCEPT ![selectedObject].collisionMap = new]
        /\ refs' = AcquireAll(ReleaseAll(refs, <<old>>), <<new>>)

\* InputText of one direction under "Sprites", Enter pressed.
SetSprite(dir, path) ==
    LET old == objects[selectedObject].sprites[dir]
        new == AcquireSprite(path)
    IN  /\ objects' = [objects EXCEPT ![selectedObject].sprites[dir] = new]
        /\ refs' = AcquireAll(ReleaseAll(refs, <<old>>), <<new>>)

\* The "+" button under "Expressions".
AddExpression ==
    /\ objects[selectedObject].numExpressions < COUNTOF_expressions
    /\ objects' = [objects EXCEPT ![selectedObject].numExpressions = @ + 1]
    /\ UNCHANGED refs

\* The "x" button of expression j.
DeleteExpression(j) ==
    LET o == objects[selectedObject]
        n == o.numExpressions
        \* CopyBytes(&expressions[j], &expressions[j + 1], (n - j - 1) * sizeof ...)
        shifted == [k \in ExpressionSlots |->
                      IF k >= j /\ k < n - 1 THEN o.expressions[k + 1]
                      ELSE o.expressions[k]]
    IN  /\ objects' = [objects EXCEPT
                         ![selectedObject].numExpressions = n - 1,
                         ![selectedObject].expressions =
                             [shifted EXCEPT ![n - 1] = ZeroExpression]]
        /\ refs' = ReleaseAll(refs, <<o.expressions[j].portrait>>)

\* InputText "Portrait" of expression j, Enter pressed.
SetPortrait(j, path) ==
    LET old == objects[selectedObject].expressions[j].portrait
        new == AcquireTexture(path)
    IN  /\ objects' = [objects EXCEPT ![selectedObject].expressions[j].portrait = new]
        /\ refs' = AcquireAll(ReleaseAll(refs, <<old>>), <<new>>)

\* SliderInt "Direction" of the selected object.
SetDirection(d) ==
    /\ objects' = [objects EXCEPT ![selectedObject].direction = d]
    /\ UNCHANGED refs

(***************************************************************************)
(* The game-state stack.  An entry is a state, its init parameter and its  *)
(* frame counter; the last entry is the top.                               *)
(***************************************************************************)
StackEntry(state, param) == [state |-> state, param |-> param, frame |-> 0]

Top == stack[Len(stack)]

\* What a frame of Playing may change of the scene.
View(objs, n) ==
    [numObjects |-> n,
     objects |-> [k \in Slots |->
        [position |-> objs[k].position, direction |-> objs[k].direction,
         animationFrame |-> objs[k].animationFrame,
         animationTimeAccumulator |-> objs[k].animationTimeAccumulator,
         motionMaster |-> objs[k].motionMaster]]]

(***************************************************************************)
(* The files on disk when the program starts.                              *)
(***************************************************************************)
TestPlayer ==
    [ZeroObject EXCEPT
       !.name = "Player", !.position = Vec(640, 360), !.direction = 6,
       !.animationFps = 15,
       !.sprites = [d \in Directions |-> IF d = 6 THEN "npc" ELSE NULL],
       !.expressions = [j \in ExpressionSlots |->
            IF j = 0 THEN [name |-> "neutral", portrait |-> "face.png"]
            ELSE ZeroExpression]]

TestNpc ==
    [ZeroObject EXCEPT
       !.name = "A", !.position = Vec(660, 360), !.zOffset = -34,
       !.script = "talk.txt", !.collisionMap = "map.png",
       !.sprites = [d \in Directions |-> IF d = 0 THEN "npc" ELSE NULL],
       !.expressions = [j \in ExpressionSlots |->
            IF j = 0 THEN [name |-> "happy", portrait |-> "face.png"]
            ELSE ZeroExpression]]

TestScene == [k \in 0 .. 1 |-> IF k = 0 THEN TestPlayer ELSE TestNpc]

InitialDisk ==
    [test |-> SaveSceneStream(TestScene, 2),
     out |-> NoFile,
     empty |-> SaveSceneStream(<<>>, 0),
     notascene |-> <<"LULW", SCENE_VERSION, 0>>,
     old |-> <<SCENE_MAGIC, SCENE_VERSION - 1, 0>>,
     negative |-> <<SCENE_MAGIC, SCENE_VERSION, -1>>,
     big |-> SaveSceneStream([k \in 0 .. MaxObjects |-> ZeroObject], MaxObjects + 1),
     locked |-> Unreadable]

StaticObjects == [k \in Slots |-> StaticObject]
NoRefs == [a \in AssetFiles |-> 0]

\* GameInit: LoadScene("test.scene") into the static table.
GameInitScene == LoadSceneResult(StaticObjects, 0, NoRefs, "", InitialDisk["test"], "test")

WithinRefs(rf) == \A a \in DOMAIN rf : rf[a] <= MaxRefs

(***************************************************************************)
(* The editor is open over Playing: console commands load and save scenes, *)
(* the object list and the property panel edit the table.                  *)
(***************************************************************************)
EditorOpen == Top.state = "EDITOR" /\ ~ub
HasSelection == selectedObject # NullIndex
NoSnapshot == [path |-> "", numObjects |-> 0, objects |-> <<>>]

LoadArgs == {<<>>, <<"a", "b">>} \cup {<<p>> : p \in DOMAIN InitialDisk}
SaveArgs == {<<>>, <<"a", "b">>, <<"out">>}

InitScene ==
    /\ objects = GameInitScene.objects
    /\ numObjects = GameInitScene.numObjects
    /\ refs = GameInitScene.refs
    /\ lastSavedOrLoadedScene = GameInitScene.last
    /\ logged = GameInitScene.logged
    /\ ub = GameInitScene.ub
    /\ disk = InitialDisk
    /\ selectedObject = NullIndex
    /\ edits = 0
    /\ writes = 0
    /\ saved = NoSnapshot

Init ==
    /\ InitScene
    /\ stack = <<StackEntry("PLAYING", NullIndex), StackEntry("EDITOR", NullIndex)>>
    /\ talkingObject = NullIndex
    /\ paragraphIndex = 0
    /\ commandIndex = [p \in ScriptFiles |-> 0]
    /\ cameraTrauma = 0
    /\ cameraTraumaFalloff = 0
    /\ devMode = TRUE
    /\ playingView = View(objects, numObjects)
    /\ lastCommand = NoCommand

\* The path a load or save command with these arguments works on.
CommandPath(args) == IF Len(args) = 1 THEN args[1] ELSE lastSavedOrLoadedScene

LoadCommand(inputs) ==
    /\ EditorOpen
    /\ \E args \in inputs : HandleLoadCommand(args)
    /\ WithinRefs(refs')
    /\ UNCHANGED <<selectedObject, edits, writes, saved, gameVars, lastCommand>>

SaveCommand(inputs) ==
    /\ EditorOpen
    /\ numObjects <= MaxObjects
    /\ \E args \in inputs, written \in BOOLEAN :
          /\ written => /\ Len(args) <= 1
                        /\ CommandPath(args) \in DOMAIN disk
                        /\ writes < MaxWrites
          /\ HandleSaveCommand(args, written)
          /\ writes' = IF written THEN writes + 1 ELSE writes
          /\ saved' = IF written
                      THEN [path |-> CommandPath(args), numObjects |-> numObjects,
                            objects |-> objects]
                      ELSE saved
    /\ UNCHANGED <<selectedObject, edits, gameVars, lastCommand>>

EditorDelete ==
    /\ EditorOpen
    /\ \E i \in 0 .. numObjects - 1 : DeleteObject(i)
    /\ lastCommand' = NoCommand
    /\ UNCHANGED <<disk, lastSavedOrLoadedScene, logged, ub, edits, writes, saved, gameVars>>

EditorClone ==
    /\ EditorOpen
    /\ \E i \in 0 .. numObjects - 1 : CloneObject(i)
    /\ WithinRefs(refs')
    /\ lastCommand' = NoCommand
    /\ UNCHANGED <<selectedObject, disk, lastSavedOrLoadedScene, logged, ub, edits, writes,
                   saved, gameVars>>

EditorAdd ==
    /\ EditorOpen
    /\ AddObject
    /\ lastCommand' = NoCommand
    /\ UNCHANGED <<refs, selectedObject, disk, lastSavedOrLoadedScene, logged, edits,
                   writes, saved, gameVars>>

\* ImGui::Selectable of row i; Ctrl+D clears the selection.
EditorSelect ==
    /\ EditorOpen
    /\ \E i \in (0 .. numObjects - 1) \cup {NullIndex} : selectedObject' = i
    /\ lastCommand' = NoCommand
    /\ UNCHANGED <<objects, numObjects, refs, disk, lastSavedOrLoadedScene, logged, ub,
                   edits, writes, saved, gameVars>>

\* The property panel is drawn for the selected object only.
PanelOpen == EditorOpen /\ HasSelection /\ edits < MaxEdits

\* What an input to the property panel leaves alone.
PanelDone ==
    /\ edits' = edits + 1
    /\ WithinRefs(refs')
    /\ lastCommand' = NoCommand
    /\ UNCHANGED <<numObjects, selectedObject, disk, lastSavedOrLoadedScene, logged, ub,
                   writes, saved, gameVars>>

EditorAssets ==
    /\ PanelOpen
    /\ \/ \E path \in ScriptFiles \cup {""} : SetScript(path)
       \/ \E path \in CollisionMapFiles \cup {""} : SetCollisionMap(path)
       \/ \E path \in SpriteFiles \cup {""} : SetSprite(0, path)
    /\ PanelDone

EditorExpressions ==
    /\ PanelOpen
    /\ \/ AddExpression
       \/ \E j \in 0 .. objects[selectedObject].numExpressions - 1 :
             DeleteExpression(j)
       \/ \E j \in 0 .. objects[selectedObject].numExpressions - 1,
             path \in TextureFiles \cup {""} : SetPortrait(j, path)
    /\ PanelDone

EditorDirection ==
    /\ PanelOpen
    /\ SetDirection(3)
    /\ PanelDone

Next ==
    \/ LoadCommand(LoadArgs)
    \/ EditorDelete
    \/ EditorClone
    \/ EditorAdd
    \/ EditorSelect

Spec == Init /\ [][Next]_vars

(***************************************************************************)
(* FileSpec: scenes are saved and loaded again, between edits of the       *)
(* object list and of the expressions.                                     *)
(***************************************************************************)
FileLoadArgs == {<<>>, <<"out">>, <<"test">>}

FileNext ==
    \/ SaveCommand(SaveArgs)
    \/ LoadCommand(FileLoadArgs)
    \/ EditorAdd
    \/ EditorSelect
    \/ EditorAssets
    \/ EditorExpressions
    \/ EditorDirection

FileSpec == Init /\ [][FileNext]_vars

(***************************************************************************)
(* The game: the states Playing, Talking, Paused and Editor, one action    *)
(* per frame of the state on top of the stack.  Lengths are whole pixels,  *)
(* times are frames (FRAME_TIME == 1 / FPS), the camera trauma is counted  *)
(* in 600ths.                                                             *)
(***************************************************************************)
FPS == 60
SKIP_TO_END == 99999
\* Characters revealed per second: 20 * t is compared with the duration.
REVEAL_RATE == 20
INTERACT_RANGE == 50
WALK_SPEED == 5
SPRINT_SPEED == 10
\* Y_SQUISH is 0.5f: a multiplication by it is a division by this.
Y_SQUISH_DIVISOR == 2
\* DEFAULT_CAMERA_SHAKE_TRAUMA 0.5f
DEFAULT_CAMERA_SHAKE_TRAUMA == 300
\* DEFAULT_CAMERA_SHAKE_FALLOFF (0.7f * FRAME_TIME)
DEFAULT_CAMERA_SHAKE_FALLOFF == 7

\* Frame counters above this stay where they are.
FrameCap == 4
\* The shake command is not given while the trauma is above this.
MaxTrauma == 300
\* The player walks inside this box.
MinX == 610
MaxX == 660
MinY == 355
MaxY == 360

\* What the asset files hold: frames per sprite, pixels per frame and per
\* collision map, and the reveal duration of each paragraph of a script.
SpriteNumFrames == 2
StillNumFrames == 1
TextureHeight == 20
MapWidth == 20
MapHeight == 20
ParagraphDurations(script) ==
    IF script = "talk.txt" THEN <<1, 0, 1>> ELSE <<>>
NumParagraphs(script) == Len(ParagraphDurations(script))

\* GetImageColor(map, xi, yi).r < 128: the right half of the map is dark.
DarkPixel(xi, yi) == 2 * xi >= MapWidth

Abs(a) == IF a < 0 THEN -a ELSE a

\* roundf(angleTaus * DIRECTION_ENUM_COUNT) for the angle of v, counter-clockwise
\* from (1, 0): the octant borders lie at odd multiples of 22.5 degrees, where
\* |short| = (sqrt(2) - 1) * |long|; atan2(0, 0) is 0.
RoundedOctant(v) ==
    LET ax == Abs(v.x)
        ay == Abs(v.y)
        flat == (ax + ay) * (ax + ay) < 2 * ax * ax
        steep == (ax + ay) * (ax + ay) < 2 * ay * ay
    IN  IF v.x = 0 /\ v.y = 0 THEN 0
        ELSE IF flat THEN (IF v.x > 0 THEN (IF v.y >= 0 THEN 0 ELSE 8) ELSE 4)
        ELSE IF steep THEN (IF v.y > 0 THEN 2 ELSE 6)
        ELSE IF v.x > 0 THEN (IF v.y > 0 THEN 1 ELSE 7)
        ELSE (IF v.y > 0 THEN 3 ELSE 5)

\* A plausible slip: the index is returned without the test for the count.
DirectionFromVectorUnwrapped(v) == RoundedOctant(v)

DirectionFromVector(v) ==
    LET index == RoundedOctant(v)
    IN  IF index >= DIRECTION_ENUM_COUNT THEN 0
        ELSE IF index < 0 THEN DIRECTION_ENUM_COUNT - 1
        ELSE index

\* Left and right facings swap, up and down stay.
MirrorDirectionVertically(d) == (DIRECTION_ENUM_COUNT \div 2 - d) % DIRECTION_ENUM_COUNT

\* A plausible slip: no second look at the mirrored direction.
GetCurrentSpriteUnmirrored(o) == o.sprites[o.direction]

GetCurrentSprite(o) ==
    IF o.sprites[o.direction] # NULL THEN o.sprites[o.direction]
    ELSE o.sprites[MirrorDirectionVertically(o.direction)]

\* GetCurrentTexture(object) != NULL
HasCurrentTexture(o) == GetCurrentSprite(o) # NULL

\* Twice the y of GetFootPositionInWorldSpace: (position.y + height / 2) * Y_SQUISH.
FootY2(o) == o.position.y + (IF HasCurrentTexture(o) THEN TextureHeight \div 2 ELSE 0)

\* DistanceBetween(a, b) < range, without the square root.
DistanceBelow(a, b, range) ==
    LET dx2 == 2 * (a.position.x - b.position.x)
        dy2 == FootY2(a) - FootY2(b)
    IN  dx2 * dx2 + dy2 * dy2 < 4 * range * range

\* A plausible slip: the comparison turned round, bright pixels stop the point.
CheckCollisionMapBright(px, py) ==
    /\ px >= 0
    /\ px < MapWidth
    /\ py >= 0
    /\ py < MapHeight
    /\ ~DarkPixel(px, py)

\* CheckCollisionMap(map, position): inside the image and on a dark pixel.
CheckCollisionMap(px, py) ==
    /\ px >= 0
    /\ px < MapWidth
    /\ py >= 0
    /\ py < MapHeight
    /\ DarkPixel(px, py)

\* The object's collision map stops a point from standing at (x, y).
Blocks(o, x, y) ==
    LET left == o.position.x - MapWidth \div 2
        top == o.position.y - MapHeight \div 2
    IN  /\ o.collisionMap # NULL
        /\ x >= left /\ x < left + MapWidth
        /\ y >= top /\ y < top + MapHeight
        /\ CheckCollisionMap(x - left, y - top)

\* MovePointWithCollisions(position, velocity)
MovePointWithCollisions(position, velocity) ==
    LET newPosition == Vec(position.x + velocity.x, position.y + velocity.y)
    IN  IF \E i \in 0 .. numObjects - 1 : Blocks(objects[i], newPosition.x, newPosition.y)
        THEN position
        ELSE newPosition

\* MotionMaster::Update(); an arrivalTime below 0 stands for infinity (speed 0).
MotionMasterUpdate(m) ==
    IF ~m.isMoving THEN m
    ELSE IF m.arrivalTime < 0 THEN [m EXCEPT !.currentPoint = m.startPoint]
    ELSE IF m.arrivalTime > 0 /\ m.motionTime + m.speed <= m.arrivalTime
    THEN LET t == m.motionTime + m.speed
         IN  [m EXCEPT
                !.motionTime = t,
                !.currentPoint =
                    Vec(m.startPoint.x + ((m.endPoint.x - m.startPoint.x) * t) \div m.arrivalTime,
                        m.startPoint.y + ((m.endPoint.y - m.startPoint.y) * t) \div m.arrivalTime)]
    ELSE \* currentPoint = endPoint; Reset();
         [DefaultMotionMaster EXCEPT !.currentPoint = m.endPoint]

\* sprite->numFrames
NumFrames(sprite) == IF sprite \in StillFiles THEN StillNumFrames ELSE SpriteNumFrames

\* Update(object) never returns: 1 / animationFps is negative and the loop
\* that drains the accumulator only adds to it.
UpdateHangs(o) == GetCurrentSprite(o) # NULL /\ o.animationFps < 0

\* Update(object): the sprite animation, then the motion.  The accumulator
\* counts frames; the frame time 1 / animationFps is FPS / animationFps frames.
Update(o) ==
    LET acc == o.animationTimeAccumulator + 1
        frameTime == FPS \div o.animationFps
        steps == (acc - 1) \div frameTime
        animated ==
            IF GetCurrentSprite(o) = NULL \/ o.animationFps < 0 THEN o
            ELSE IF o.animationFps = 0
            THEN [o EXCEPT !.animationTimeAccumulator = Min(acc, FrameCap)]
            ELSE [o EXCEPT
                    !.animationTimeAccumulator = acc - steps * frameTime,
                    !.animationFrame = (@ + steps) % NumFrames(GetCurrentSprite(o))]
        m == MotionMasterUpdate(o.motionMaster)
    IN  IF m.isMoving
        THEN [animated EXCEPT
                !.motionMaster = m,
                !.position = m.currentPoint,
                !.direction = DirectionFromVector(Vec(m.endPoint.x - m.startPoint.x,
                                                      m.startPoint.y - m.endPoint.y))]
        ELSE [animated EXCEPT !.motionMaster = m]

\* UpdateCameraShake(): the trauma and the falloff after it.
UpdateCameraShake(trauma, falloff) ==
    IF trauma - falloff <= 0
    THEN [trauma |-> 0, falloff |-> DEFAULT_CAMERA_SHAKE_FALLOFF]
    ELSE [trauma |-> trauma - falloff, falloff |-> falloff]

\* The frame counter of a state after one more frame.
Tick(frame) == IF frame >= FrameCap THEN frame ELSE frame + 1

\* The stack once the state on top has had its frame, its counter left at `frame`
\* by the update (SetFrameNumberInCurrentGameState) or untouched.
EndFrame(frame) == [stack EXCEPT ![Len(stack)].frame = Tick(frame)]

\* PushGameState(state, param), after the frame of the state that pushes.
PushGameState(state, param) == Append(EndFrame(Top.frame), StackEntry(state, param))

\* PopGameState()
PopGameState == SubSeq(stack, 1, Len(stack) - 1)

\* ClampInt(value, low, high)
ClampInt(value, low, high) ==
    IF value < low THEN low ELSE IF value > high THEN high ELSE value

\* A plausible slip: the loop keeps the last object in range, not the first.
LastInteractTarget ==
    LET hits == {i \in 0 .. numObjects - 1 :
                    /\ objects[i].script # NULL
                    /\ DistanceBelow(objects[0], objects[i], INTERACT_RANGE)}
    IN  IF hits = {} THEN NullIndex ELSE CHOOSE i \in hits : \A k \in hits : k <= i

\* The object the interact loop of Playing_Update stops at: the first one with
\* a script whose feet are within range of the player's.
InteractTarget ==
    LET hits == {i \in 0 .. numObjects - 1 :
                    /\ objects[i].script # NULL
                    /\ DistanceBelow(objects[0], objects[i], INTERACT_RANGE)}
    IN  IF hits = {} THEN NullIndex ELSE CHOOSE i \in hits : \A k \in hits : i <= k

\* The rest of Playing_Update: the player moves, every object updates, the
\* camera shake decays.  input.movement is a full tilt along one axis or none.
PlayingMoves(sprint, move) ==
    LET moveSpeed == IF sprint THEN SPRINT_SPEED ELSE WALK_SPEED
        moving == move.x # 0 \/ move.y # 0
        turned == [objects[0] EXCEPT
                     !.direction = DirectionFromVector(Vec(Y_SQUISH_DIVISOR * move.x,
                                                           -move.y))]
        deltaPos == Vec(moveSpeed * move.x, (moveSpeed * move.y) \div Y_SQUISH_DIVISOR)
        feetPos == Vec(turned.position.x, turned.position.y + TextureHeight \div 2)
        newFeetPos == MovePointWithCollisions(feetPos, deltaPos)
        moved == [turned EXCEPT
                    !.position = Vec(@.x + newFeetPos.x - feetPos.x,
                                     @.y + newFeetPos.y - feetPos.y)]
        walked == IF moving THEN [objects EXCEPT ![0] = moved] ELSE objects
        crashes == \/ moving /\ ~HasCurrentTexture(turned)
                   \/ \E i \in 0 .. numObjects - 1 : UpdateHangs(walked[i])
        shake == UpdateCameraShake(cameraTrauma, cameraTraumaFalloff)
    IN  /\ moving => /\ moved.position.x \in MinX .. MaxX
                     /\ moved.position.y \in MinY .. MaxY
        /\ ub' = crashes
        /\ objects' = IF crashes THEN objects
                      ELSE [k \in Slots |-> IF k < numObjects THEN Update(walked[k])
                                            ELSE walked[k]]
        /\ cameraTrauma' = shake.trauma
        /\ cameraTraumaFalloff' = shake.falloff
        /\ stack' = EndFrame(Top.frame)
        /\ UNCHANGED <<talkingObject, paragraphIndex, commandIndex>>

\* Talking_Init(param)
Talking_Init(param) ==
    /\ talkingObject' = param
    /\ commandIndex' = [commandIndex EXCEPT ![objects[param].script] = 0]
    /\ paragraphIndex' = 0

\* A plausible slip: the pause key looked at before the console key.
Playing_UpdatePauseFirst(console, pause, interact, sprint, move) ==
    /\ IF pause
       THEN /\ stack' = PushGameState("PAUSED", NullIndex)
            /\ UNCHANGED <<objects, ub, cameraTrauma, cameraTraumaFalloff, talkingObject,
                           paragraphIndex, commandIndex>>
       ELSE IF console
       THEN /\ stack' = PushGameState("EDITOR", NullIndex)
            /\ UNCHANGED <<objects, ub, cameraTrauma, cameraTraumaFalloff, talkingObject,
                           paragraphIndex, commandIndex>>
       ELSE IF interact /\ InteractTarget # NullIndex
       THEN /\ stack' = PushGameState("TALKING", InteractTarget)
            /\ Talking_Init(InteractTarget)
            /\ UNCHANGED <<objects, ub, cameraTrauma, cameraTraumaFalloff>>
       ELSE PlayingMoves(sprint, move)
    /\ playingView' = View(objects', numObjects)
    /\ lastCommand' = NoCommand
    /\ UNCHANGED <<numObjects, refs, disk, lastSavedOrLoadedScene, logged, selectedObject,
                   edits, writes, saved, devMode>>

\* Playing_Update() with the frame's input.
Playing_Update(console, pause, interact, sprint, move) ==
    /\ IF console
       THEN /\ stack' = PushGameState("EDITOR", NullIndex)
            /\ UNCHANGED <<objects, ub, cameraTrauma, cameraTraumaFalloff, talkingObject,
                           paragraphIndex, commandIndex>>
       ELSE IF pause
       THEN /\ stack' = PushGameState("PAUSED", NullIndex)
            /\ UNCHANGED <<objects, ub, cameraTrauma, cameraTraumaFalloff, talkingObject,
                           paragraphIndex, commandIndex>>
       ELSE IF interact /\ InteractTarget # NullIndex
       THEN /\ stack' = PushGameState("TALKING", InteractTarget)
            /\ Talking_Init(InteractTarget)
            /\ UNCHANGED <<objects, ub, cameraTrauma, cameraTraumaFalloff>>
       ELSE PlayingMoves(sprint, move)
    /\ playingView' = View(objects', numObjects)
    /\ lastCommand' = NoCommand
    /\ UNCHANGED <<numObjects, refs, disk, lastSavedOrLoadedScene, logged, selectedObject,
                   edits, writes, saved, devMode>>

\* A plausible slip: the time taken before SetFrameNumberInCurrentGameState
\* has moved it, at the start of the paragraph.
RevealUnfinishedAtStart(frame, duration) == 0 < FPS * duration

\* 20 * GetTimeInCurrentGameState() < duration, the time being frame / FPS.
RevealUnfinished(frame, duration) == REVEAL_RATE * frame < FPS * duration

\* Talking_Update() with the frame's input.  `garbage` is what the comparison
\* makes of a duration read outside the paragraph list.
Talking_Update(pause, interact, keyLeft, keyRight, garbage) ==
    LET script == objects[talkingObject].script
        numParagraphs == NumParagraphs(script)
        clamped == IF paragraphIndex >= numParagraphs THEN numParagraphs - 1
                   ELSE paragraphIndex
        left == IF devMode /\ keyLeft
                THEN [index |-> ClampInt(clamped - 1, 0, numParagraphs - 1), frame |-> 0]
                ELSE [index |-> clamped, frame |-> Top.frame]
        right == IF devMode /\ keyRight
                 THEN (IF left.index = numParagraphs - 1
                       THEN [index |-> left.index, frame |-> SKIP_TO_END]
                       ELSE [index |-> ClampInt(left.index + 1, 0, numParagraphs - 1),
                             frame |-> 0])
                 ELSE left
        outside == right.index \notin 0 .. numParagraphs - 1
        unfinished == IF outside THEN garbage
                      ELSE RevealUnfinished(right.frame,
                                            ParagraphDurations(script)[right.index + 1])
        shake == UpdateCameraShake(cameraTrauma, cameraTraumaFalloff)
        \* the end of the function, from `if (paragraphIndex != prevParagraphIndex)`
        Finish(index, frame) ==
            /\ paragraphIndex' = index
            /\ stack' = EndFrame(frame)
            /\ commandIndex' = IF index # paragraphIndex
                               THEN [commandIndex EXCEPT ![script] = 0]
                               ELSE commandIndex
            /\ cameraTrauma' = shake.trauma
            /\ cameraTraumaFalloff' = shake.falloff
    IN  /\ IF pause
           THEN /\ stack' = PushGameState("PAUSED", NullIndex)
                /\ UNCHANGED <<paragraphIndex, commandIndex, cameraTrauma,
                               cameraTraumaFalloff, ub>>
           ELSE IF ~interact
           THEN Finish(right.index, right.frame) /\ UNCHANGED ub
           ELSE /\ ub' = outside
                /\ IF unfinished
                   THEN Finish(right.index, SKIP_TO_END)
                   ELSE IF right.index + 1 >= numParagraphs
                   THEN /\ paragraphIndex' = right.index + 1
                        /\ stack' = PopGameState
                        /\ UNCHANGED <<commandIndex, cameraTrauma, cameraTraumaFalloff>>
                   ELSE Finish(right.index + 1, 0)
        /\ lastCommand' = NoCommand
        /\ UNCHANGED <<objects, numObjects, refs, disk, lastSavedOrLoadedScene, logged,
                       selectedObject, edits, writes, saved, talkingObject, devMode,
                       playingView>>

\* A plausible slip: Paused keeps the objects of the scene updating.
Paused_UpdateObjects(pause) ==
    /\ stack' = IF pause THEN PopGameState ELSE EndFrame(Top.frame)
    /\ lastCommand' = NoCommand
    /\ objects' = [k \in Slots |-> IF k < numObjects THEN Update(objects[k])
                                   ELSE objects[k]]
    /\ UNCHANGED <<numObjects, refs, disk, lastSavedOrLoadedScene, logged, selectedObject,
                   ub, edits, writes, saved, talkingObject, paragraphIndex, commandIndex,
                   cameraTrauma, cameraTraumaFalloff, devMode, playingView>>

\* A plausible slip: Paused lets the camera shake decay as the other states do.
Paused_UpdateShake(pause) ==
    /\ stack' = IF pause THEN PopGameState ELSE EndFrame(Top.frame)
    /\ lastCommand' = NoCommand
    /\ cameraTrauma' = UpdateCameraShake(cameraTrauma, cameraTraumaFalloff).trauma
    /\ cameraTraumaFalloff' = UpdateCameraShake(cameraTrauma, cameraTraumaFalloff).falloff
    /\ UNCHANGED <<sceneVars, talkingObject, paragraphIndex, commandIndex, devMode,
                   playingView>>

\* A plausible slip: the pause key handled as Playing and Talking handle it.
Paused_UpdatePushes(pause) ==
    /\ stack' = IF pause THEN PushGameState("PAUSED", NullIndex) ELSE EndFrame(Top.frame)
    /\ lastCommand' = NoCommand
    /\ UNCHANGED <<sceneVars, talkingObject, paragraphIndex, commandIndex, cameraTrauma,
                   cameraTraumaFalloff, devMode, playingView>>

\* Paused_Update() with the frame's input.
Paused_Update(pause) ==
    /\ stack' = IF pause THEN PopGameState ELSE EndFrame(Top.frame)
    /\ lastCommand' = NoCommand
    /\ UNCHANGED <<sceneVars, talkingObject, paragraphIndex, commandIndex, cameraTrauma,
                   cameraTraumaFalloff, devMode, playingView>>

\* Editor_Update() with the frame's input.
Editor_Update(console, wantCaptureKeyboard) ==
    /\ stack' = IF ~wantCaptureKeyboard /\ console THEN PopGameState
                ELSE EndFrame(Top.frame)
    /\ lastCommand' = NoCommand
    /\ UNCHANGED <<sceneVars, talkingObject, paragraphIndex, commandIndex, cameraTrauma,
                   cameraTraumaFalloff, devMode, playingView>>

\* ParseCommandBoolArg and ParseCommandFloatArg: the value of a token, floats
\* in 600ths; a token outside the domain does not parse.
BoolTokens == [true |-> TRUE, false |-> FALSE]
FloatTokens == ("0" :> 0) @@ ("0.5" :> 300) @@ ("0.25" :> 150)

\* bool HandleToggleDevModeCommand(args): dev [bool]
HandleToggleDevModeCommand(args) ==
    devMode' = IF Len(args) = 0 THEN ~devMode
               ELSE IF args[1] \in DOMAIN BoolTokens THEN BoolTokens[args[1]]
               ELSE devMode

\* What HandleToggleDevModeCommand(args) returns.
HandleToggleDevModeCommandReturns(args) ==
    Len(args) = 0 \/ args[1] \in DOMAIN BoolTokens

\* bool HandleCameraShakeCommand(args): shake [trauma] [falloff]
HandleCameraShakeCommand(args) ==
    LET parses == \A k \in DOMAIN args : args[k] \in DOMAIN FloatTokens
        trauma == IF Len(args) >= 1 THEN FloatTokens[args[1]]
                  ELSE DEFAULT_CAMERA_SHAKE_TRAUMA
        falloff == IF Len(args) >= 2 THEN FloatTokens[args[2]]
                   ELSE DEFAULT_CAMERA_SHAKE_FALLOFF
    IN  IF Len(args) > 2 \/ ~parses
        THEN UNCHANGED <<cameraTrauma, cameraTraumaFalloff>>
        ELSE /\ cameraTrauma' = cameraTrauma + trauma
             /\ cameraTraumaFalloff' = falloff

\* What HandleCameraShakeCommand(args) returns.
HandleCameraShakeCommandReturns(args) ==
    Len(args) <= 2 /\ \A k \in DOMAIN args : args[k] \in DOMAIN FloatTokens

\* ParseCommandFloatArg for the tokens given as coordinates, in pixels.
PixelTokens ==
    ("0" :> 0) @@ ("2" :> 2) @@ ("5" :> 5) @@ ("-5" :> -5) @@ ("640" :> 640) @@ ("360" :> 360)

\* bool HandlePlayerTeleportCommand(args): tp x y
HandlePlayerTeleportCommand(args) ==
    IF Len(args) # 2 \/ args[1] \notin DOMAIN PixelTokens \/ args[2] \notin DOMAIN PixelTokens
    THEN UNCHANGED objects
    ELSE objects' = [objects EXCEPT ![0].position =
                        Vec(PixelTokens[args[1]], PixelTokens[args[2]])]

\* What HandlePlayerTeleportCommand(args) returns.
HandlePlayerTeleportCommandReturns(args) ==
    Len(args) = 2 /\ args[1] \in DOMAIN PixelTokens /\ args[2] \in DOMAIN PixelTokens

\* bool HandleSoundCommand(args): sound filename [volume] [pitch].  args[0] is
\* read whatever the count is; the sound played is no state of the game.
HandleSoundCommand(args) == ub' = (Len(args) = 0)

\* What HandleSoundCommand(args) returns.
HandleSoundCommandReturns(args) ==
    /\ Len(args) <= 3
    /\ \A k \in DOMAIN args : k >= 2 => args[k] \in DOMAIN FloatTokens

\* Vector2Distance(a, b), rounded down to a whole pixel.
Vector2Distance(a, b) ==
    LET square == (a.x - b.x) * (a.x - b.x) + (a.y - b.y) * (a.y - b.y)
    IN  CHOOSE r \in 0 .. square : r * r <= square /\ square < (r + 1) * (r + 1)

\* A plausible slip: the start == end test left out.
MoveToPointAlways(m, start, end) ==
    [m EXCEPT !.startPoint = start, !.endPoint = end, !.isMoving = TRUE,
              !.arrivalTime = IF m.speed = 0 THEN -1
                              ELSE (FPS * Vector2Distance(start, end)) \div m.speed]

\* MotionMaster::MoveToPoint(start, end).  Times are in frames: a distance
\* divided by speed 0 is infinite, written -1.
MoveToPoint(m, start, end) ==
    IF start = end THEN m
    ELSE [m EXCEPT !.startPoint = start, !.endPoint = end, !.isMoving = TRUE,
                   !.arrivalTime = IF m.speed = 0 THEN -1
                                   ELSE (FPS * Vector2Distance(start, end)) \div m.speed]

\* bool HandleMoveTo(args): move dx dy, through MoveToPoint(&objects[0], pos)
HandleMoveTo(args) ==
    IF Len(args) # 2 \/ args[1] \notin DOMAIN PixelTokens \/ args[2] \notin DOMAIN PixelTokens
    THEN UNCHANGED objects
    ELSE LET position == objects[0].position
             end == Vec(position.x + PixelTokens[args[1]], position.y + PixelTokens[args[2]])
         IN  objects' = [objects EXCEPT ![0].motionMaster = MoveToPoint(@, position, end)]

\* What HandleMoveTo(args) returns.
HandleMoveToReturns(args) ==
    Len(args) = 2 /\ args[1] \in DOMAIN PixelTokens /\ args[2] \in DOMAIN PixelTokens

(***************************************************************************)
(* GameSpec: the game runs from GameInit on a scene of the player, "A" with *)
(* a script of three paragraphs and "B" with a script of none.             *)
(***************************************************************************)
TownPlayer ==
    [ZeroObject EXCEPT
       !.name = "Player", !.position = Vec(640, 360), !.direction = 6,
       !.animationFps = 30, !.sprites = [d \in Directions |-> "npc"]]

TownA ==
    [ZeroObject EXCEPT
       !.name = "A", !.position = Vec(660, 360), !.animationFps = 60,
       !.script = "talk.txt", !.collisionMap = "map.png",
       !.sprites = [d \in Directions |-> IF d = 0 THEN "npc" ELSE NULL]]

TownB ==
    [ZeroObject EXCEPT
       !.name = "B", !.position = Vec(620, 360), !.script = "empty.txt"]

TownScene == [k \in Slots |-> IF k = 0 THEN TownPlayer ELSE IF k = 1 THEN TownA ELSE TownB]

TownDisk == [InitialDisk EXCEPT !.test = SaveSceneStream(TownScene, MaxObjects)]

GameInitTown == LoadSceneResult(StaticObjects, 0, NoRefs, "", TownDisk["test"], "test")

GameInit ==
    /\ objects = GameInitTown.objects
    /\ numObjects = GameInitTown.numObjects
    /\ refs = GameInitTown.refs
    /\ lastSavedOrLoadedScene = GameInitTown.last
    /\ logged = GameInitTown.logged
    /\ ub = GameInitTown.ub
    /\ disk = TownDisk
    /\ selectedObject = NullIndex
    /\ edits = 0
    /\ writes = 0
    /\ saved = NoSnapshot
    /\ stack = <<StackEntry("PLAYING", NullIndex)>>
    /\ talkingObject = NullIndex
    /\ paragraphIndex = 0
    /\ commandIndex = [p \in ScriptFiles |-> 0]
    /\ cameraTrauma = 0
    /\ cameraTraumaFalloff = 0
    /\ devMode = TRUE
    /\ playingView = View(objects, numObjects)
    /\ lastCommand = NoCommand

\* input.movement at full tilt along one axis, or at rest.
Moves == {Vec(0, 0), Vec(1, 0), Vec(-1, 0), Vec(0, 1), Vec(0, -1)}

OnTop(state) == ~ub /\ Top.state = state

PlayingFrame ==
    /\ OnTop("PLAYING")
    /\ \E console, pause, interact, sprint \in BOOLEAN, move \in Moves :
          \* a vertical step is a whole pixel only at sprint speed
          /\ move.y # 0 => sprint
          /\ Playing_Update(console, pause, interact, sprint, move)

TalkingFrame ==
    /\ OnTop("TALKING")
    /\ \E pause, interact, keyLeft, keyRight, garbage \in BOOLEAN :
          Talking_Update(pause, interact, keyLeft, keyRight, garbage)

PausedFrame ==
    /\ OnTop("PAUSED")
    /\ \E pause \in BOOLEAN : Paused_Update(pause)

EditorFrame ==
    /\ OnTop("EDITOR")
    /\ \E console, wantCaptureKeyboard \in BOOLEAN :
          Editor_Update(console, wantCaptureKeyboard)

DevArgs == {<<>>, <<"true">>, <<"false">>, <<"maybe">>}
ShakeArgs == {<<"0.5", "0.25">>, <<"0.5", "lots">>, <<"0.5", "0.25", "0.25">>}

DevCommand ==
    /\ OnTop("EDITOR")
    /\ \E args \in DevArgs : HandleToggleDevModeCommand(args)
    /\ UNCHANGED <<sceneVars, stack, talkingObject, paragraphIndex, commandIndex,
                   cameraTrauma, cameraTraumaFalloff, playingView, lastCommand>>

ShakeCommand ==
    /\ OnTop("EDITOR")
    /\ \E args \in ShakeArgs : HandleCameraShakeCommand(args)
    /\ cameraTrauma' <= MaxTrauma
    /\ UNCHANGED <<sceneVars, stack, talkingObject, paragraphIndex, commandIndex,
                   devMode, playingView, lastCommand>>

GameNext ==
    \/ PlayingFrame
    \/ TalkingFrame
    \/ PausedFrame
    \/ EditorFrame
    \/ DevCommand
    \/ ShakeCommand

GameSpec == GameInit /\ [][GameNext]_vars

(***************************************************************************)
(* ConsoleSpec: the game runs from GameInit, the console key opens the     *)
(* editor over Playing and command lines are run in the console.           *)
(* MotionSpec: move and load commands are run in the console, and Playing  *)
(* updates the objects in its frames without input.                        *)
(***************************************************************************)
Line(name, args) == [name |-> name, args |-> args]

\* The command lines typed: well-formed ones and ones with a wrong number of
\* arguments or a token that does not parse.
ConsoleLines ==
    {Line("tp", a) : a \in {<<"640", "360">>, <<"640">>, <<"640", "x">>, <<"0", "0", "0">>}}
    \cup {Line("dev", a) : a \in {<<"true">>, <<"maybe">>, <<"false", "false">>}}
    \cup {Line("shake", a) : a \in {<<"0.5", "lots">>, <<"0.5", "0.25", "0.25">>}}
    \cup {Line("sound", a) : a \in {<<"ding.wav">>, <<"ding.wav", "loud">>, <<>>,
                                    <<"ding.wav", "0.5", "0.5", "0.5">>}}
    \cup {Line("move", a) : a \in {<<"5", "0">>, <<"0", "0">>, <<"5">>, <<"5", "up">>}}
    \cup {Line("save", a) : a \in {<<>>, <<"a", "b">>}}
    \cup {Line("load", a) : a \in {<<>>, <<"a", "b">>, <<"old">>}}

\* The player is sent right and left, the scene is loaded again.
MotionLines ==
    {Line("move", a) : a \in {<<"5", "0">>, <<"-5", "0">>, <<"0", "0">>}}
    \cup {Line("load", <<>>)}

\* The handler the console calls for the line; `written` is what SaveFileData
\* returns if the line saves.
RunCommand(line, written) ==
    LET args == line.args
        scene == <<numObjects, refs, disk, lastSavedOrLoadedScene, logged>>
        shake == <<cameraTrauma, cameraTraumaFalloff>>
        Ran(value) == lastCommand' = [name |-> line.name, returned |-> value]
    IN  CASE line.name = "tp" ->
               /\ HandlePlayerTeleportCommand(args)
               /\ Ran(HandlePlayerTeleportCommandReturns(args))
               /\ UNCHANGED <<scene, ub, shake, devMode>>
          [] line.name = "dev" ->
               /\ HandleToggleDevModeCommand(args)
               /\ Ran(HandleToggleDevModeCommandReturns(args))
               /\ UNCHANGED <<objects, scene, ub, shake>>
          [] line.name = "shake" ->
               /\ HandleCameraShakeCommand(args)
               /\ Ran(HandleCameraShakeCommandReturns(args))
               /\ UNCHANGED <<objects, scene, ub, devMode>>
          [] line.name = "sound" ->
               /\ HandleSoundCommand(args)
               /\ Ran(HandleSoundCommandReturns(args))
               /\ UNCHANGED <<objects, scene, shake, devMode>>
          [] line.name = "move" ->
               /\ HandleMoveTo(args)
               /\ Ran(HandleMoveToReturns(args))
               /\ UNCHANGED <<scene, ub, shake, devMode>>
          [] line.name = "save" ->
               /\ HandleSaveCommand(args, written)
               /\ Ran(HandleSaveCommandReturns(args))
               /\ UNCHANGED <<shake, devMode>>
          [] line.name = "load" ->
               /\ HandleLoadCommand(args)
               /\ Ran(HandleLoadCommandReturns(args))
               /\ UNCHANGED <<shake, devMode>>

\* Commands take the player no further than this from where the scene puts it.
MoveReach == 5

WithinReach(point) ==
    /\ Abs(point.x - TownPlayer.position.x) <= MoveReach
    /\ Abs(point.y - TownPlayer.position.y) <= MoveReach

ConsoleCommand(lines) ==
    /\ OnTop("EDITOR")
    /\ \E line \in lines : RunCommand(line, FALSE)
    /\ WithinReach(objects'[0].position)
    /\ objects'[0].motionMaster.isMoving => WithinReach(objects'[0].motionMaster.endPoint)
    /\ cameraTrauma' <= MaxTrauma
    /\ playingView' = View(objects', numObjects')
    /\ UNCHANGED <<selectedObject, edits, writes, saved, stack, talkingObject,
                   paragraphIndex, commandIndex>>

\* A frame of Playing with the console key pressed: the editor opens.
ConsoleKey ==
    /\ OnTop("PLAYING")
    /\ Playing_Update(TRUE, FALSE, FALSE, FALSE, Vec(0, 0))

\* A frame of Playing without input: every object is updated.
IdleFrame ==
    /\ OnTop("PLAYING")
    /\ Playing_Update(FALSE, FALSE, FALSE, FALSE, Vec(0, 0))

ConsoleNext ==
    \/ ConsoleCommand(ConsoleLines)
    \/ ConsoleKey
    \/ EditorFrame

ConsoleSpec == GameInit /\ [][ConsoleNext]_vars

MotionNext ==
    \/ ConsoleCommand(MotionLines)
    \/ ConsoleKey
    \/ IdleFrame
    \/ EditorFrame

MotionSpec == GameInit /\ [][MotionNext]_vars

\* The game loop never stops: the state on top gets its frame.
MotionLiveSpec ==
    MotionSpec /\ WF_vars(ConsoleKey \/ IdleFrame) /\ WF_vars(EditorFrame)

(***************************************************************************)
(* Properties of scene loading and of the editor's object list (Spec).     *)
(***************************************************************************)
\* The file opened and read, and its magic or its version is not the current one.
BadHeader(data) ==
    /\ data # NoFile
    /\ data # Unreadable
    /\ (data[1] # SCENE_MAGIC \/ data[2] # SCENE_VERSION)

\* C1: a load command on a file whose magic is not "KEKW" or whose version is
\* not SCENE_VERSION leaves numObjects, every object record and every asset
\* reference count as they were, and logs the failure: "isn't a scene file"
\* for the magic, the version error otherwise.
C1_RejectedLoadKeepsTable ==
    [][\A args \in LoadArgs :
          (/\ Len(args) = 1
           /\ BadHeader(FileAt(args[1]))
           /\ HandleLoadCommand(args))
          => /\ UNCHANGED <<objects, numObjects, refs, lastSavedOrLoadedScene>>
             /\ logged' = IF FileAt(args[1])[1] # SCENE_MAGIC THEN LogNotAScene
                          ELSE LogVersion]_vars

\* A file of an old version was rejected while three objects were in the table.
C1_Witness ==
    /\ logged = LogVersion
    /\ numObjects = MaxObjects
    /\ refs["face.png"] > 0

\* Every handle slot of an object: script, collision map, sprites, portraits.
HandleSlots(o) ==
    <<o.script, o.collisionMap>>
    \o [k \in 1 .. DIRECTION_ENUM_COUNT |-> o.sprites[k - 1]]
    \o [k \in 1 .. COUNTOF_expressions |-> o.expressions[k - 1].portrait]

RECURSIVE LiveSlots(_, _)
\* The number of handle slots of objects[0 .. n-1] that hold asset a.
LiveSlots(a, n) ==
    IF n <= 0 THEN 0
    ELSE LiveSlots(a, n - 1) + Occurrences(HandleSlots(objects[n - 1]), a)

\* C4: for every asset, the acquires not yet released are as many as the handle
\* slots of live objects (index < numObjects) that hold the asset.
C4_RefsBalanced ==
    ~ub => \A a \in AssetFiles : refs[a] = LiveSlots(a, numObjects)

\* C5: while the table holds an object at index 0, no delete, clone or add of
\* the editor's object list changes the record at index 0 or empties the table.
C5_PlayerRowStays ==
    [][(numObjects >= 1 /\ (EditorDelete \/ EditorClone \/ EditorAdd))
          => (objects'[0] = objects[0] /\ numObjects' >= 1)]_vars

\* An object was added and the row between it and the player deleted.
C5_Witness ==
    /\ numObjects = 2
    /\ objects[0] = GameInitScene.objects[0]
    /\ objects[1].name = "Object3"

\* C6: the object count is never negative and never above the array's size.
C6_CountWithinCapacity == 0 <= numObjects /\ numObjects <= MaxObjects

(***************************************************************************)
(* Properties of saving and loading again (FileSpec).                      *)
(***************************************************************************)
\* The step loads the file SaveScene last wrote.
LoadsSaved(args) ==
    /\ saved # NoSnapshot
    /\ Len(args) <= 1
    /\ CommandPath(args) = saved.path
    /\ HandleLoadCommand(args)

\* The fields of an object that the scene format carries.
StoredFields(o) ==
    [name |-> o.name, position |-> o.position, zOffset |-> o.zOffset,
     animationFps |-> o.animationFps, direction |-> o.direction,
     script |-> GetAssetPath(o.script), collisionMap |-> GetAssetPath(o.collisionMap),
     sprites |-> [d \in Directions |-> GetAssetPath(o.sprites[d])],
     expressions |-> [j \in ExpressionSlots |->
        [name |-> o.expressions[j].name,
         portrait |-> GetAssetPath(o.expressions[j].portrait)]]]

C3_RoundTripKeepsNumExpressions ==
    [][\A args \in FileLoadArgs :
          LoadsSaved(args)
          => \A i \in 0 .. saved.numObjects - 1 :
                objects'[i].numExpressions = saved.objects[i].numExpressions]_vars

(***************************************************************************)
(* Properties of the game states (GameSpec).                               *)
(***************************************************************************)
\* C7: the object count and every object's position, direction, animation
\* frame and accumulator and MotionMaster are what the last Playing_Update
\* left, whatever Talking and Paused did on top of Playing since.
C7_NestedStatesLeaveScene == View(objects, numObjects) = playingView

\* Paused is on top of Talking, frames have passed in it, the player had walked.
C7_Witness ==
    /\ Len(stack) = 3
    /\ stack[2].state = "TALKING"
    /\ Top.state = "PAUSED"
    /\ Top.frame >= 2
    /\ objects[0].position # TownPlayer.position
    /\ objects[0].animationFrame = 1

\* C8: a frame with Paused on top changes neither the talking object, the
\* paragraph index, the script's command index nor the camera shake; it
\* removes Paused and nothing else from the stack, or leaves the stack's entries
\* below Paused as they are; the frame of Talking that pushes Paused keeps the
\* talking object and the paragraph index.
C8_PausedKeepsDialogue ==
    [][/\ Top.state = "PAUSED"
          => /\ UNCHANGED <<talkingObject, paragraphIndex, commandIndex, cameraTrauma,
                            cameraTraumaFalloff>>
             /\ SubSeq(stack', 1, Len(stack) - 1) = SubSeq(stack, 1, Len(stack) - 1)
             /\ Len(stack') \in {Len(stack), Len(stack) - 1}
       /\ (Top.state = "TALKING" /\ Len(stack') > Len(stack))
          => UNCHANGED <<talkingObject, paragraphIndex, commandIndex>>]_vars

\* Paused is on top of Talking at the second paragraph while the camera shakes.
C8_Witness ==
    /\ Len(stack) = 3
    /\ stack[2].state = "TALKING"
    /\ Top.state = "PAUSED"
    /\ Top.frame >= 1
    /\ paragraphIndex = 1
    /\ talkingObject = 1
    /\ cameraTrauma > 0

\* C9: with devMode off, a frame of Talking leaves the paragraph index or
\* raises it by exactly 1, raises it only once the reveal of the paragraph is
\* over, reads no paragraph outside the script, and pops Talking exactly when
\* the index passes the last paragraph; a frame of Playing that pushes Talking
\* leaves the index at 0.
C9_DialogueProgression ==
    [][/\ (Top.state = "TALKING" /\ ~devMode /\ ~ub)
          => LET script == objects[talkingObject].script
             IN  /\ paragraphIndex' \in {paragraphIndex, paragraphIndex + 1}
                 /\ ~ub'
                 /\ paragraphIndex' = paragraphIndex + 1
                       => ~RevealUnfinished(Top.frame,
                                            ParagraphDurations(script)[paragraphIndex + 1])
                 /\ Len(stack') < Len(stack) <=> paragraphIndex' = NumParagraphs(script)
       /\ (Top.state = "PLAYING" /\ Len(stack') > Len(stack) /\ Top'.state = "TALKING")
          => paragraphIndex' = 0]_vars

\* The objects with a script whose feet are less than 50 from the player's.
InReach ==
    {i \in 0 .. numObjects - 1 :
        /\ objects[i].script # NULL
        /\ DistanceBelow(objects[0], objects[i], INTERACT_RANGE)}

\* C10: a frame of Playing with an interact press and no console or pause
\* press pushes Talking exactly when some object with a script is in reach;
\* the parameter is the lowest index in reach; with none in reach the stack
\* keeps its entries and the player turns the way the movement input points.
C10_InteractPushesTalking ==
    [][\A sprint \in BOOLEAN, move \in Moves :
          (OnTop("PLAYING") /\ Playing_Update(FALSE, FALSE, TRUE, sprint, move))
          => IF InReach # {}
             THEN /\ stack' = Append(EndFrame(Top.frame),
                                     StackEntry("TALKING",
                                                CHOOSE i \in InReach :
                                                   \A k \in InReach : i <= k))
                  /\ talkingObject' = Top'.param
                  /\ UNCHANGED objects
             ELSE /\ Len(stack') = Len(stack)
                  /\ Top'.state = "PLAYING"
                  /\ UNCHANGED talkingObject
                  /\ (move # Vec(0, 0) /\ ~ub')
                        => objects'[0].direction =
                              DirectionFromVector(Vec(Y_SQUISH_DIVISOR * move.x, -move.y))]_vars

\* Talking runs for "B", the third row, with "A" out of reach and "B" in reach.
C10_Witness ==
    /\ Top.state = "TALKING"
    /\ Top.param = 2
    /\ talkingObject = 2
    /\ InReach = {2}

(***************************************************************************)
(* Properties of the collision resolver (GameSpec).                        *)
(***************************************************************************)
\* The steps tried from the player's feet: walk and sprint steps and no step.
ProbeVelocities == {Vec(dx, dy) : dx \in {-10, -5, 0, 5, 10}, dy \in {-5, 0, 5}}

\* Where Playing_Update takes the player's feet to be.
PlayerFeet == Vec(objects[0].position.x, objects[0].position.y + TextureHeight \div 2)

\* Object i has a mask, the point lies in the mask's rectangle centred on the
\* object, and the mask's pixel under the point is dark.
MaskStops(i, point) ==
    LET o == objects[i]
        localX == point.x - (o.position.x - MapWidth \div 2)
        localY == point.y - (o.position.y - MapHeight \div 2)
    IN  /\ o.collisionMap # NULL
        /\ localX \in 0 .. MapWidth - 1
        /\ localY \in 0 .. MapHeight - 1
        /\ DarkPixel(localX, localY)

Stopped(point) == \E i \in 0 .. numObjects - 1 : MaskStops(i, point)

\* C11: MovePointWithCollisions returns the position when some object's mask
\* stops the target point (inside the mask's rectangle, on a dark pixel) and
\* position + velocity otherwise, never a point between the two; for a
\* velocity other than zero it returns the position only when stopped.
C11_MoveIsAllOrNothing ==
    \A v \in ProbeVelocities :
        LET target == Vec(PlayerFeet.x + v.x, PlayerFeet.y + v.y)
            result == MovePointWithCollisions(PlayerFeet, v)
        IN  /\ Stopped(target) => result = PlayerFeet
            /\ ~Stopped(target) => result = target
            /\ v # Vec(0, 0) => ((result = PlayerFeet) <=> Stopped(target))

\* The player has walked up to the dark half of the mask of "A" and faces it:
\* one walking step further right is stopped, one to the left is free.
C11_Witness ==
    /\ Top.state = "PLAYING"
    /\ objects[0].direction = 0
    /\ objects[0].position # TownPlayer.position
    /\ Stopped(Vec(PlayerFeet.x + WALK_SPEED, PlayerFeet.y))
    /\ ~Stopped(Vec(PlayerFeet.x - WALK_SPEED, PlayerFeet.y))
    /\ ~Stopped(PlayerFeet)

(***************************************************************************)
(* Properties of the MotionMaster (MotionSpec).                            *)
(***************************************************************************)
PlayerMotion == objects[0].motionMaster

\* C12: a move command by (0, 0), which is MoveToPoint(p, p), returns true and
\* changes no field of the controller nor of any object, whether the controller
\* is idle or moving.
C12_MoveToSamePointIsNoOp ==
    [][(OnTop("EDITOR") /\ RunCommand(Line("move", <<"0", "0">>), FALSE))
          => (UNCHANGED objects /\ lastCommand'.returned)]_vars

\* A move command has just run on a controller that is part of its way and
\* whose start point is not where the player stands: the command was the one
\* by (0, 0), since any other makes the player's position the start point.
C12_Witness ==
    /\ lastCommand = [name |-> "move", returned |-> TRUE]
    /\ PlayerMotion.isMoving
    /\ PlayerMotion.motionTime > 0
    /\ PlayerMotion.startPoint # objects[0].position

\* C13: the frame of Playing in which the player's controller stops leaves
\* its current point at the end point and every other field at its default;
\* and if Playing keeps updating, a moving controller stops.
C13_MotionArrives ==
    /\ [][(IdleFrame /\ PlayerMotion.isMoving /\ ~PlayerMotion'.isMoving)
             => PlayerMotion' = [DefaultMotionMaster EXCEPT
                                   !.currentPoint = PlayerMotion.endPoint]]_vars
    /\ ([]<><<IdleFrame>>_vars) => (PlayerMotion.isMoving ~> ~PlayerMotion.isMoving)

(***************************************************************************)
(* Drawing order of the objects (GetZSortedObjects, Playing_Render).       *)
(***************************************************************************)
\* A plausible slip: the comparison turned round.
ZCompareAscending(l, r) ==
    LET lz == FootY2(l) + l.zOffset
        rz == FootY2(r) + r.zOffset
    IN  IF lz < rz THEN -1 ELSE IF lz > rz THEN 1 ELSE 0

\* The comparison function handed to Sort: GetFootPositionInScreenSpace(o).y is
\* position.y plus half the height of the current texture, which is FootY2(o).
ZCompare(l, r) ==
    LET lz == FootY2(l) + l.zOffset
        rz == FootY2(r) + r.zOffset
    IN  IF lz > rz THEN -1 ELSE IF lz < rz THEN 1 ELSE 0

\* Sort on the pointers to the first n objects: each pointer goes in before the
\* first one of those already placed that the comparison puts it in front of.
RECURSIVE SortPointers(_)
SortPointers(n) ==
    IF n = 0 THEN <<>>
    ELSE LET sorted == SortPointers(n - 1)
             i == n - 1
             after == {k \in 1 .. Len(sorted) : ZCompare(objects[i], objects[sorted[k]]) < 0}
             at == IF after = {} THEN Len(sorted) + 1
                   ELSE CHOOSE k \in after : \A j \in after : k <= j
         IN  SubSeq(sorted, 1, at - 1) \o <<i>> \o SubSeq(sorted, at, Len(sorted))

GetZSortedObjects == SortPointers(numObjects)

\* The objects in the order Playing_Render draws them: the list from its last
\* element down to its first.
DrawOrder ==
    LET sorted == GetZSortedObjects
    IN  [k \in 1 .. Len(sorted) |-> sorted[Len(sorted) + 1 - k]]

ZKey(i) == FootY2(objects[i]) + objects[i].zOffset

\* C14: GetZSortedObjects holds every index 0 .. numObjects - 1 exactly once
\* and nothing else, the key footY + zOffset never increases from one element
\* to the next, and the order Playing_Render draws in never decreases in it.
C14_ZSortedIsDescendingPermutation ==
    (~ub /\ numObjects \in 0 .. MaxObjects) =>
        LET sorted == GetZSortedObjects
        IN  /\ Len(sorted) = numObjects
            /\ {sorted[k] : k \in DOMAIN sorted} = 0 .. numObjects - 1
            /\ \A k \in 1 .. Len(sorted) - 1 : ZKey(sorted[k]) >= ZKey(sorted[k + 1])
            /\ Len(DrawOrder) = numObjects
            /\ \A k \in 1 .. Len(DrawOrder) - 1 : ZKey(DrawOrder[k]) <= ZKey(DrawOrder[k + 1])

\* The player has walked up the screen: "A" now sorts in front of the player,
\* and "B", which has no texture, is drawn first.
C14_Witness ==
    /\ ~ub
    /\ numObjects = 3
    /\ GetZSortedObjects = <<1, 0, 2>>
    /\ DrawOrder = <<2, 0, 1>>
    /\ ZKey(1) > ZKey(0) /\ ZKey(0) > ZKey(2)

(***************************************************************************)
(* Properties of the console commands (ConsoleSpec).                       *)
(***************************************************************************)
AllParse(args, from, tokens) == \A k \in from .. Len(args) : args[k] \in DOMAIN tokens

\* The line does not follow the usage of its command: tp <x> <y>, dev [bool],
\* shake [trauma] [falloff], sound <path> [volume] [pitch], move <dx> <dy>,
\* save [path], load [path].
Malformed(line) ==
    LET args == line.args
    IN  CASE line.name = "tp" -> Len(args) # 2 \/ ~AllParse(args, 1, PixelTokens)
          [] line.name = "dev" -> Len(args) > 1 \/ ~AllParse(args, 1, BoolTokens)
          [] line.name = "shake" -> Len(args) > 2 \/ ~AllParse(args, 1, FloatTokens)
          [] line.name = "sound" -> Len(args) \notin 1 .. 3 \/ ~AllParse(args, 2, FloatTokens)
          [] line.name = "move" -> Len(args) # 2 \/ ~AllParse(args, 1, PixelTokens)
          [] line.name \in {"save", "load"} -> Len(args) > 1

\* C15: a handler called with a line that does not follow its usage returns
\* false and changes nothing: not the player's position or controller, not
\* devMode, not the camera shake, not the scene table, not the last-used path;
\* and it reads no argument that is not there.
C15_MalformedCommandChangesNothing ==
    [][\A line \in ConsoleLines :
          (OnTop("EDITOR") /\ Malformed(line) /\ RunCommand(line, FALSE))
              => /\ ~lastCommand'.returned
                 /\ ~ub'
                 /\ UNCHANGED <<objects, numObjects, refs, disk, lastSavedOrLoadedScene,
                                devMode, cameraTrauma, cameraTraumaFalloff>>]_vars

(***************************************************************************)
(* Properties of LoadScene as a whole (Spec).                              *)
(***************************************************************************)
\* C16: when a load command returns, the table is either the one from before
\* the command or the complete scene of the file: the count is one the array
\* can hold, nothing was written outside the array, and writing the table out
\* again gives the file.
C16_LoadIsAtomic ==
    [][\A args \in LoadArgs :
          (EditorOpen /\ Len(args) = 1 /\ HandleLoadCommand(args))
          => \/ UNCHANGED <<objects, numObjects, refs>>
             \/ /\ ~ub'
                /\ numObjects' \in 0 .. MaxObjects
                /\ SaveSceneStream(objects', numObjects') = FileAt(args[1])]_vars

\* C17: a load command that succeeds leaves the table that loading the same
\* file into the program as it starts would leave: the file's count, every
\* field of every loaded object, and for every asset as many unreleased
\* acquires as the loaded objects hold, whatever the table held before.
C17_LoadedTableFromFileAlone ==
    [][\A args \in LoadArgs :
          (/\ EditorOpen
           /\ Len(args) = 1
           /\ HandleLoadCommand(args)
           /\ logged' = LogLoaded
           /\ numObjects' \in 0 .. MaxObjects)
          => LET fresh == LoadSceneResult(StaticObjects, 0, NoRefs, "",
                                          FileAt(args[1]), args[1])
             IN  /\ numObjects' = fresh.numObjects
                 /\ refs' = fresh.refs
                 /\ \A i \in 0 .. numObjects' - 1 : objects'[i] = fresh.objects[i]]_vars

(***************************************************************************)
(* Rendering of the game-state stack (GameSpec).                           *)
(***************************************************************************)
\* A plausible slip: Paused_Render draws its overlay without the call to the
\* state beneath.
RenderCallsPreviousButPaused ==
    [PLAYING |-> FALSE, TALKING |-> TRUE, EDITOR |-> TRUE, PAUSED |-> FALSE]

\* Whether the render hook of a state begins with CallPreviousGameStateRender():
\* Talking_Render, Editor_Render and Paused_Render do, Playing_Render does not.
RenderCallsPrevious ==
    [PLAYING |-> FALSE, TALKING |-> TRUE, EDITOR |-> TRUE, PAUSED |-> TRUE]

\* The stack positions drawn, in order, when the render hook of the state at
\* position k runs: the hook of the state beneath first if the hook calls it.
RECURSIVE RenderFrom(_)
RenderFrom(k) ==
    IF k = 0 THEN <<>>
    ELSE (IF RenderCallsPrevious[stack[k].state] THEN RenderFrom(k - 1) ELSE <<>>)
         \o <<k>>

\* A frame renders the state on top.
RenderFrame == RenderFrom(Len(stack))

\* C18: in every frame each state on the stack is drawn exactly once, from the
\* bottom of the stack to the top, and the state at the bottom, the only one
\* whose hook calls no other, is Playing.
C18_RenderIsBottomToTopChain ==
    /\ RenderFrame = [k \in 1 .. Len(stack) |-> k]
    /\ stack[1].state = "PLAYING"
    /\ \A k \in 2 .. Len(stack) : stack[k].state # "PLAYING"

\* Paused over Talking over Playing: three hooks run in one frame.
C18_Witness ==
    /\ Len(stack) = 3
    /\ [k \in 1 .. 3 |-> stack[k].state] = <<"PLAYING", "TALKING", "PAUSED">>
    /\ RenderFrame = <<1, 2, 3>>

(***************************************************************************)
(* PathSpec: scenes are loaded from every file on the disk and saved.      *)
(***************************************************************************)
PathNext ==
    \/ LoadCommand(LoadArgs)
    \/ SaveCommand(SaveArgs)

PathSpec == Init /\ [][PathNext]_vars

\* C19: a load or save command that succeeds makes its path the last-used
\* one; one that fails (file missing or unreadable, bad magic, bad version,
\* file not written) leaves the last-used path as it was; and a command
\* without argument loads from, or saves to, the last-used path.
C19_LastPathChangesOnlyOnSuccess ==
    [][/\ \A args \in LoadArgs :
             (EditorOpen /\ Len(args) <= 1 /\ HandleLoadCommand(args))
             => LET P == IF Len(args) = 1 THEN args[1] ELSE lastSavedOrLoadedScene
                    header == FileAt(P)
                    valid == /\ Len(header) >= 3
                             /\ header[1] = SCENE_MAGIC
                             /\ header[2] = SCENE_VERSION
                IN  IF valid
                    THEN logged' = LogLoaded /\ lastSavedOrLoadedScene' = P
                    ELSE logged' \in LoadErrors /\ UNCHANGED lastSavedOrLoadedScene
       /\ \A args \in SaveArgs, written \in BOOLEAN :
             (EditorOpen /\ Len(args) <= 1 /\ HandleSaveCommand(args, written))
             => LET P == IF Len(args) = 1 THEN args[1] ELSE lastSavedOrLoadedScene
                IN  IF written
                    THEN /\ lastSavedOrLoadedScene' = P
                         /\ disk' = [disk EXCEPT ![P] = SaveSceneStream(objects, numObjects)]
                    ELSE UNCHANGED <<lastSavedOrLoadedScene, disk>>]_vars

\* The scene was saved to "out" and a later load of an old file was rejected:
\* "out" is still the last-used path.
C19_Witness ==
    /\ saved.path = "out"
    /\ lastSavedOrLoadedScene = "out"
    /\ logged = LogVersion

(***************************************************************************)
(* SpriteSpec: the game runs on the test scene, whose player has a sprite  *)
(* for one direction only.                                                 *)
(***************************************************************************)
SpriteNext ==
    \/ PlayingFrame
    \/ TalkingFrame
    \/ PausedFrame
    \/ EditorFrame

SpriteSpec == Init /\ [][SpriteNext]_vars

\* The object has no sprite for direction d and none for its mirror image.
SpriteMissing(o, d) ==
    o.sprites[d] = NULL /\ o.sprites[MirrorDirectionVertically(d)] = NULL

\* C20: a frame of Playing on a scene whose player lacks the sprite of some
\* direction and of its mirror image completes, whatever the input: the
\* movement, the update of every object and the foot positions use no texture
\* that is missing.
C20_MissingSpriteIsNotFatal ==
    [][(PlayingFrame /\ \E d \in Directions : SpriteMissing(objects[0], d)) => ~ub']_vars

(***************************************************************************)
(* Properties of the editor's object list (Spec).                          *)
(***************************************************************************)
\* C21: the delete of row i > 0 releases every asset handle of the object
\* (script, collision map, sprites, portraits), lowers numObjects by one,
\* leaves the objects before i as they are and moves each object after i down
\* by one place with every field unchanged.
C21_DeleteReleasesAndCompacts ==
    [][\A i \in 1 .. numObjects - 1 :
          (EditorOpen /\ DeleteObject(i))
          => /\ refs' = ReleaseAll(refs, HandleSlots(objects[i]))
             /\ numObjects' = numObjects - 1
             /\ \A k \in 0 .. i - 1 : objects'[k] = objects[k]
             /\ \A k \in i .. numObjects - 2 : objects'[k] = objects[k + 1]]_vars

\* C22: the clone of row i, when the table has room, puts a copy of the object
\* at i + 1, moves each object after i up by one place with every field
\* unchanged, raises numObjects by one and acquires once more every asset
\* handle of the source (script, collision map, sprites, every portrait); when
\* the table is full nothing changes.
C22_CloneInsertsAndReacquires ==
    [][\A i \in 0 .. numObjects - 1 :
          (EditorOpen /\ CloneObject(i))
          => IF numObjects < MaxObjects
             THEN /\ numObjects' = numObjects + 1
                  /\ \A k \in 0 .. i : objects'[k] = objects[k]
                  /\ objects'[i + 1] = objects[i]
                  /\ \A k \in i + 2 .. numObjects : objects'[k] = objects[k - 1]
                  /\ refs' = AcquireAll(refs, HandleSlots(objects[i]))
             ELSE UNCHANGED <<objects, numObjects, refs>>]_vars

(***************************************************************************)
(* Sprites, textures and outlines (FileSpec).                              *)
(***************************************************************************)
\* The width in pixels of every frame of the sprite on disk.
TextureWidth == 10

EmptyRectangle == [x |-> 0, y |-> 0, width |-> 0, height |-> 0]

\* GetOutline(object): the texture's rectangle centred on the position.
GetOutline(o) ==
    IF ~HasCurrentTexture(o) THEN EmptyRectangle
    ELSE [x |-> o.position.x - TextureWidth \div 2,
          y |-> o.position.y - TextureHeight \div 2,
          width |-> TextureWidth, height |-> TextureHeight]

(***************************************************************************)
(* FacingSpec: the editor adds objects, gives them sprites and turns them. *)
(***************************************************************************)
FacingNext ==
    \/ EditorAdd
    \/ EditorSelect
    \/ EditorAssets
    \/ EditorDirection

FacingSpec == Init /\ [][FacingNext]_vars

Facing(o, d) == [o EXCEPT !.direction = d]

\* C23: for every object and every direction it may face, GetCurrentSprite is
\* the sprite of the direction if there is one, else the sprite of the
\* mirrored direction if there is one, else none; and with none there is no
\* current texture, the outline is the empty rectangle and the foot position
\* is the position.
C23_SpriteFallsBackToMirror ==
    ~ub => \A i \in 0 .. numObjects - 1, d \in Directions :
        LET o == Facing(objects[i], d)
            own == o.sprites[d]
            mirrored == o.sprites[MirrorDirectionVertically(d)]
        IN  /\ own # NULL => GetCurrentSprite(o) = own
            /\ (own = NULL /\ mirrored # NULL) => GetCurrentSprite(o) = mirrored
            /\ (own = NULL /\ mirrored = NULL) =>
                  /\ GetCurrentSprite(o) = NULL
                  /\ ~HasCurrentTexture(o)
                  /\ GetOutline(o) = EmptyRectangle
                  /\ FootY2(o) = o.position.y
            /\ HasCurrentTexture(o) =>
                  /\ GetOutline(o).width = TextureWidth
                  /\ FootY2(o) = o.position.y + TextureHeight \div 2

\* The editor gave the added object a sprite for DIRECTION_RIGHT only: facing
\* left it shows that sprite mirrored, facing up it shows nothing.
C23_Witness ==
    /\ ~ub
    /\ numObjects = 3
    /\ objects[2].sprites[0] # NULL
    /\ objects[2].sprites[4] = NULL
    /\ GetCurrentSprite(Facing(objects[2], 4)) = objects[2].sprites[0]
    /\ GetCurrentSprite(Facing(objects[2], 2)) = NULL
    /\ GetOutline(Facing(objects[2], 2)) = EmptyRectangle
    /\ GetOutline(Facing(objects[2], 4)) # EmptyRectangle

(***************************************************************************)
(* DirectionSpec: the console sends the player off in several directions,  *)
(* and each frame of the motion turns the player the way it moves.         *)
(***************************************************************************)
DirectionLines ==
    {Line("move", a) : a \in {<<"5", "2">>, <<"-5", "0">>}}

DirectionNext ==
    \/ ConsoleCommand(DirectionLines)
    \/ ConsoleKey
    \/ IdleFrame
    \/ EditorFrame

DirectionSpec == GameInit /\ [][DirectionNext]_vars

\* Scalings tried on each vector.
MaxScale == 3

\* The vectors tried, besides the ones the motion produces: a square grid.
ProbeVectors == {Vec(x, y) : x, y \in -MoveReach .. MoveReach}

\* The vector Update(object) turns a moving object by.
MotionVector(m) == Vec(m.endPoint.x - m.startPoint.x, m.startPoint.y - m.endPoint.y)

\* C24: DirectionFromVector returns one of the 8 directions for every vector,
\* DIRECTION_RIGHT where the rounded index is the count, and the same
\* direction for the vector scaled by a positive factor; every object's
\* direction is one of the 8.
C24_DirectionWithinRange ==
    /\ \A v \in ProbeVectors :
          /\ DirectionFromVector(v) \in Directions
          /\ RoundedOctant(v) = DIRECTION_ENUM_COUNT => DirectionFromVector(v) = 0
          /\ \A k \in 1 .. MaxScale :
                DirectionFromVector(Vec(k * v.x, k * v.y)) = DirectionFromVector(v)
    /\ ~ub => \A i \in 0 .. numObjects - 1 : objects[i].direction \in Directions

\* The player is part of its way along a motion a little below the x axis,
\* whose rounded index is the count, and faces DIRECTION_RIGHT.
C24_Witness ==
    /\ PlayerMotion.isMoving
    /\ PlayerMotion.motionTime > 0
    /\ RoundedOctant(MotionVector(PlayerMotion)) = DIRECTION_ENUM_COUNT
    /\ objects[0].direction = 0

(***************************************************************************)
(* Properties of the game-state stack (GameSpec).                          *)
(***************************************************************************)
StackStates == [k \in 1 .. Len(stack) |-> stack[k].state]

\* C25: the stack is always one of [Playing], [Playing, Talking],
\* [Playing, Paused], [Playing, Talking, Paused], [Playing, Editor]; a state
\* is pushed only over Playing or Talking, the editor only over Playing, and
\* each step pushes or pops at most one state.
C25_StackShapes ==
    /\ [](StackStates \in {<<"PLAYING">>, <<"PLAYING", "TALKING">>, <<"PLAYING", "PAUSED">>,
                           <<"PLAYING", "TALKING", "PAUSED">>, <<"PLAYING", "EDITOR">>})
    /\ [][/\ Len(stack') > Len(stack) =>
                /\ Len(stack') = Len(stack) + 1
                /\ Top.state \in {"PLAYING", "TALKING"}
                /\ Top'.state = "EDITOR" => Top.state = "PLAYING"
          /\ Len(stack') < Len(stack) =>
                /\ Len(stack') = Len(stack) - 1
                /\ Top.state # "PLAYING"
          /\ stack'[1].state = "PLAYING"]_vars

\* The deepest stack: a dialogue, some frames in, was paused.
C25_Witness ==
    /\ StackStates = <<"PLAYING", "TALKING", "PAUSED">>
    /\ stack[1].frame > 0
    /\ stack[2].frame > 0

(***************************************************************************)
(* TalkSpec: the player talks to "A"; in every frame of the dialogue the   *)
(* interact key is pressed and the pause key is not.  The developer mode   *)
(* is switched from the console between dialogues.                         *)
(***************************************************************************)
\* A frame of Playing with the interact key pressed.
TalkStart ==
    /\ OnTop("PLAYING")
    /\ Playing_Update(FALSE, FALSE, TRUE, FALSE, Vec(0, 0))

\* A frame of Talking with the interact key pressed.
TalkingPress ==
    /\ OnTop("TALKING")
    /\ \E keyLeft, keyRight, garbage \in BOOLEAN :
          Talking_Update(FALSE, TRUE, keyLeft, keyRight, garbage)

TalkNext ==
    \/ TalkStart
    \/ TalkingPress
    \/ ConsoleKey
    \/ EditorFrame
    \/ DevCommand

TalkSpec == GameInit /\ [][TalkNext]_vars

\* The game loop never stops: Talking gets its frame.
TalkLiveSpec == TalkSpec /\ WF_vars(TalkingPress)

\* A frame of Talking in developer mode with KEY_LEFT and interact pressed.
RewindPress ==
    /\ OnTop("TALKING")
    /\ devMode
    /\ \E keyRight, garbage \in BOOLEAN : Talking_Update(FALSE, TRUE, TRUE, keyRight, garbage)

InDialogue ==
    /\ OnTop("TALKING")
    /\ NumParagraphs(objects[talkingObject].script) >= 1

\* C26 as stated: with interact pressed in every frame of Talking and pause in
\* none, a dialogue over a script of at least one paragraph ends with the
\* stack back at [Playing].
C26_DialogueTerminates == InDialogue ~> (StackStates = <<"PLAYING">>)

\* C26, amended: the same, unless KEY_LEFT is pressed in developer mode in
\* frame after frame without end.
C26_DialogueTerminatesUnlessRewound ==
    ([]<><<RewindPress>>_vars) \/ (InDialogue ~> (StackStates = <<"PLAYING">>))

\* The last paragraph of three is on screen, reached without KEY_RIGHT.
C26_Witness ==
    /\ InDialogue
    /\ paragraphIndex = NumParagraphs(objects[talkingObject].script) - 1
    /\ paragraphIndex = 2
    /\ ~devMode

\* C27: Playing_Update looks at the console key, then the pause key, then the
\* interact key: the first of them that is pressed (interact only with an
\* object in range) decides the state pushed; and a frame that pushes pushes
\* one state and moves no object, animates none and leaves the camera shake
\* as it is.
C27_PlayingPushesInOrder ==
    [][\A console, pause, interact, sprint \in BOOLEAN, move \in Moves :
          (OnTop("PLAYING") /\ Playing_Update(console, pause, interact, sprint, move))
          => LET pushed == IF console THEN "EDITOR"
                           ELSE IF pause THEN "PAUSED"
                           ELSE IF interact /\ InteractTarget # NullIndex THEN "TALKING"
                           ELSE "none"
             IN  IF pushed = "none"
                 THEN Len(stack') = Len(stack)
                 ELSE /\ Len(stack') = Len(stack) + 1
                      /\ Top'.state = pushed
                      /\ pushed = "TALKING" => Top'.param = InteractTarget
                      /\ UNCHANGED <<objects, numObjects, cameraTrauma,
                                     cameraTraumaFalloff>>]_vars

\* Paused was pushed from Playing while the camera was shaking and after the
\* player had walked.
C27_Witness ==
    /\ StackStates = <<"PLAYING", "PAUSED">>
    /\ stack[2].frame = 0
    /\ cameraTrauma > 0
    /\ objects[0].position # TownPlayer.position

(***************************************************************************)
(* StrideSpec: the console sends the player right by 5 pixels, which the   *)
(* motion covers in a whole number of frames, and by 2, which it does not. *)
(***************************************************************************)
StrideLines == {Line("move", a) : a \in {<<"5", "0">>, <<"2", "0">>}}

StrideNext ==
    \/ ConsoleCommand(StrideLines)
    \/ ConsoleKey
    \/ IdleFrame
    \/ EditorFrame

StrideSpec == GameInit /\ [][StrideNext]_vars

\* C28: every frame of a motion copies the controller's point into the
\* player's position, the last one included: when the motion has finished the
\* player stands at the end point, which is where the move command found the
\* player plus the offset given.
C28_MotionEndsAtEndPoint ==
    [][/\ (IdleFrame /\ PlayerMotion'.isMoving)
             => objects'[0].position = PlayerMotion'.currentPoint
       /\ (IdleFrame /\ PlayerMotion.isMoving /\ ~PlayerMotion'.isMoving)
             => objects'[0].position = PlayerMotion.endPoint]_vars

(***************************************************************************)
(* Render hooks and the scene table (Spec).                                *)
(***************************************************************************)
\* Editor_Render() in a frame in which a widget of the object list reports an
\* input: the hook draws the list and acts on the input in place.
Editor_Render == EditorDelete \/ EditorClone \/ EditorAdd \/ EditorSelect

\* C29: a render hook only reads the scene: numObjects, every field of every
\* object and the reference counts of the assets are after the call what they
\* were before it.
C29_RenderOnlyReads ==
    [][Editor_Render => UNCHANGED <<objects, numObjects, refs>>]_vars

(***************************************************************************)
(* ShakeSpec: the console shakes the camera with the default falloff, with *)
(* a falloff of a quarter and with a falloff of zero; Playing runs between *)
(* the commands.                                                           *)
(***************************************************************************)
ShakeLines == {Line("shake", a) : a \in {<<>>, <<"0.5", "0.25">>, <<"0.5", "0">>}}

ShakeStep == ConsoleCommand(ShakeLines)

ShakeNext ==
    \/ ShakeStep
    \/ ConsoleKey
    \/ IdleFrame
    \/ EditorFrame

ShakeSpec == GameInit /\ [][ShakeNext]_vars

\* The game loop never stops: the state on top gets its frame.
ShakeLiveSpec == ShakeSpec /\ WF_vars(ConsoleKey \/ IdleFrame) /\ WF_vars(EditorFrame)

\* C30: every frame of Playing leaves the trauma at 0 or above, and at 0 only
\* with the default falloff; and if from some point on no shake command is
\* given while Playing keeps updating, the trauma comes down to 0.
C30_ShakeDiesOut ==
    /\ [][IdleFrame => /\ cameraTrauma' >= 0
                       /\ cameraTrauma' = 0 =>
                             cameraTraumaFalloff' = DEFAULT_CAMERA_SHAKE_FALLOFF]_vars
    /\ \/ []<><<ShakeStep>>_vars
       \/ ~([]<><<IdleFrame>>_vars)
       \/ (cameraTrauma > 0 ~> cameraTrauma = 0)

(***************************************************************************)
(* AnimSpec: the game animates the town while the editor, opened now and   *)
(* then, gives the selected object the single-frame sprite for the         *)
(* direction the player faces at the start.                                *)
(***************************************************************************)
EditorSprites ==
    /\ PanelOpen
    /\ \E path \in StillFiles : SetSprite(TownPlayer.direction, path)
    /\ edits' = edits + 1
    /\ lastCommand' = NoCommand
    /\ UNCHANGED <<numObjects, selectedObject, disk, lastSavedOrLoadedScene, logged, ub,
                   writes, saved, gameVars>>

AnimNext ==
    \/ IdleFrame
    \/ ConsoleKey
    \/ EditorFrame
    \/ EditorSelect
    \/ EditorSprites

AnimSpec == GameInit /\ [][AnimNext]_vars

\* C31: the animation frame of every live object that has a current sprite
\* is an index into the frames of that sprite.
C31_AnimationFrameWithinSprite ==
    ~ub => \A i \in 0 .. numObjects - 1 :
        GetCurrentSprite(objects[i]) # NULL =>
            /\ objects[i].animationFrame >= 0
            /\ objects[i].animationFrame < NumFrames(GetCurrentSprite(objects[i]))

(***************************************************************************)
(* FpsSpec: the game starts on a scene file whose player and whose "A"     *)
(* carry any of these animation rates, and Playing animates it.            *)
(***************************************************************************)
FpsValues == {-15, 0, 15, 30, 60}

FpsScene(p, a) ==
    [TownScene EXCEPT ![0].animationFps = p, ![1].animationFps = a]

\* GameInit on a disk whose test.scene holds `scene`.
GameStart(scene) ==
    LET file == SaveSceneStream(scene, MaxObjects)
        town == LoadSceneResult(StaticObjects, 0, NoRefs, "", file, "test")
    IN  /\ objects = town.objects
        /\ numObjects = town.numObjects
        /\ refs = town.refs
        /\ lastSavedOrLoadedScene = town.last
        /\ logged = town.logged
        /\ ub = town.ub
        /\ disk = [TownDisk EXCEPT !.test = file]
        /\ selectedObject = NullIndex
        /\ edits = 0
        /\ writes = 0
        /\ saved = NoSnapshot
        /\ stack = <<StackEntry("PLAYING", NullIndex)>>
        /\ talkingObject = NullIndex
        /\ paragraphIndex = 0
        /\ commandIndex = [f \in ScriptFiles |-> 0]
        /\ cameraTrauma = 0
        /\ cameraTraumaFalloff = 0
        /\ devMode = TRUE
        /\ playingView = View(objects, numObjects)
        /\ lastCommand = NoCommand

FpsInit == \E p, a \in FpsValues : GameStart(FpsScene(p, a))

FpsNext ==
    \/ IdleFrame
    \/ ConsoleKey
    \/ EditorFrame

FpsSpec == FpsInit /\ [][FpsNext]_vars

\* The animation of object i over one step: `steps` whole frame times were
\* taken off the accumulated time, which had grown by one frame, and the
\* frame index went on by as many, modulo the frames of the sprite.
Animated(i, steps) ==
    LET o == objects[i]
        frameTime == FPS \div o.animationFps
    IN  /\ objects'[i].animationTimeAccumulator =
              o.animationTimeAccumulator + 1 - steps * frameTime
        /\ objects'[i].animationTimeAccumulator <= frameTime
        /\ objects'[i].animationFrame =
              (o.animationFrame + steps) % NumFrames(GetCurrentSprite(o))

\* C32: a frame of Playing gets through the animation of every object,
\* whatever its animationFps: with a rate above 0 an object with a sprite
\* goes on by one frame index per whole frame time accumulated, and with any
\* other rate, or without a sprite, its frame index stays.
C32_AnimationStepTerminates ==
    [][IdleFrame =>
          /\ ~ub'
          /\ \A i \in 0 .. numObjects - 1 :
                IF GetCurrentSprite(objects[i]) # NULL /\ objects[i].animationFps > 0
                THEN \E steps \in 0 .. FPS : Animated(i, steps)
                ELSE objects'[i].animationFrame = objects[i].animationFrame]_vars

\* The object the selection denotes is live.
SelectionLive == selectedObject = NullIndex \/ selectedObject \in 0 .. numObjects - 1

\* The selection denotes after the step the object it denoted before.
SelectionKept ==
    /\ selectedObject' \in 0 .. numObjects' - 1
    /\ objects'[selectedObject'].name = objects[selectedObject].name

\* C33: the selection of the editor is none or a live object in every state,
\* and deleting or cloning another object, or loading a scene, leaves a
\* selection on the object it was on.
C33_SelectionStaysLive ==
    /\ []SelectionLive
    /\ [][(HasSelection /\ SelectionLive) =>
             /\ \A i \in 0 .. numObjects - 1 :
                   (i # selectedObject /\ DeleteEnabled(i) /\ DeleteObject(i)) => SelectionKept
             /\ \A i \in 0 .. numObjects - 1 :
                   (i # selectedObject /\ numObjects' = numObjects + 1 /\ CloneObject(i))
                      => SelectionKept
             /\ LoadCommand(LoadArgs) => SelectionKept]_vars

\* C34: the table holds at least one object in every state, so that slot 0,
\* which `player` points at, is a live object.
C34_TableHoldsPlayer == numObjects >= 1

\* FindObjectByName(name): the index of the first live object of that name,
\* NullIndex for NULL.  The names of the model differ in more than case.
FindObjectByName(objs, n, name) ==
    LET hits == {k \in 0 .. n - 1 : objs[k].name = name}
    IN  IF hits = {} THEN NullIndex ELSE CHOOSE k \in hits : \A h \in hits : k <= h

\* C35: the object a "Clone" button inserts below row i has a name no other
\* live object has: looking that name up gives the clone, and looking up the
\* name of row i still gives row i.
C35_CloneNameIsFree ==
    [][\A i \in 0 .. numObjects - 1 :
          (numObjects' = numObjects + 1 /\ CloneObject(i))
          => /\ FindObjectByName(objects', numObjects', objects'[i + 1].name) = i + 1
             /\ FindObjectByName(objects', numObjects', objects[i].name) = i
             /\ \A k \in (0 .. numObjects' - 1) \ {i + 1} :
                   objects'[k].name # objects'[i + 1].name]_vars

\* The move command by a non-zero offset that a step of the console runs.
MovesPlayer(line) ==
    /\ line.name = "move"
    /\ line.args # <<"0", "0">>
    /\ OnTop("EDITOR")
    /\ RunCommand(line, FALSE)

\* C36: a move command by a non-zero offset leaves the player's controller
\* at the start of its way, with an elapsed time of 0 and an arrival time of
\* the distance over the speed (in whole frames); and a controller that is
\* moving has an elapsed time between 0 and its arrival time and a start
\* point that is not its end point.
C36_MoveStartsAfresh ==
    /\ [][\A line \in StrideLines :
             MovesPlayer(line) =>
                /\ PlayerMotion'.isMoving
                /\ PlayerMotion'.motionTime = 0
                /\ PlayerMotion'.startPoint = objects[0].position
                /\ PlayerMotion.speed > 0 =>
                      LET far == FPS * Vector2Distance(PlayerMotion'.startPoint,
                                                       PlayerMotion'.endPoint)
                      IN  /\ PlayerMotion'.arrivalTime * PlayerMotion.speed <= far
                          /\ far < (PlayerMotion'.arrivalTime + 1) * PlayerMotion.speed]_vars
    /\ [](PlayerMotion.isMoving =>
             /\ PlayerMotion.motionTime >= 0
             /\ PlayerMotion.arrivalTime >= 0 =>
                   PlayerMotion.motionTime <= PlayerMotion.arrivalTime
             /\ PlayerMotion.startPoint # PlayerMotion.endPoint)

(***************************************************************************)
(* WalkSpec: the player stands beside "A", a walking step left of the dark *)
(* half of its collision map, and is moved by the movement input and by    *)
(* move commands.                                                          *)
(***************************************************************************)
WalkScene ==
    [TownScene EXCEPT ![0].position = Vec(640, 355), ![1].position = Vec(645, 360)]

WalkLines == {Line("move", a) : a \in {<<"5", "0">>, <<"-5", "0">>}}

\* A frame of Playing with the movement input and the sprint button only.
WalkFrame ==
    /\ OnTop("PLAYING")
    /\ \E sprint \in BOOLEAN, move \in Moves :
          /\ move.y # 0 => sprint
          /\ Playing_Update(FALSE, FALSE, FALSE, sprint, move)

WalkNext ==
    \/ ConsoleCommand(WalkLines)
    \/ ConsoleKey
    \/ WalkFrame
    \/ EditorFrame

WalkInit == GameStart(WalkScene)

WalkSpec == WalkInit /\ [][WalkNext]_vars

\* C37: a frame of Playing that changes the player's position leaves the
\* player's feet on a point no collision map stops.
C37_PlayingKeepsFeetFree ==
    [][(WalkFrame /\ ~ub' /\ objects'[0].position # objects[0].position)
          => ~Stopped(PlayerFeet)']_vars

\* Talking is on the stack: its render hook draws the current paragraph in
\* every frame, and its update hook reads it when Talking is on top.
TalkingShown == ~ub /\ \E k \in 1 .. Len(stack) : stack[k].state = "TALKING"

\* C38: while Talking is on the stack, paragraphIndex is an index into the
\* paragraphs of the talking object's script.
C38_ParagraphIndexInRange ==
    TalkingShown =>
        paragraphIndex \in 0 .. NumParagraphs(objects[talkingObject].script) - 1

(***************************************************************************)
(* SizeSpec: the editor is open on a scene of one object, whose row is     *)
(* cloned until the table is full; the scene is saved now and then.  The   *)
(* table has all the slots of the program's array.                         *)
(***************************************************************************)
COUNTOF_objects == 100
\* int maxBytes = 32 * 1024
maxBytes == 32768

\* A name and an expression name as long as their fields allow.
LongName == "NNNNNNNNNNNNNNNNNNNNNNNNNNNNNNNNNNNNNNNNNNNNNNNNN"
LongExpressionName == "eeeeeeeeeeeeeeeeeeeeeeeeeeeeeee"

\* An object without assets whose name and whose ten expression names were
\* typed in full in the property panel.
FullObject ==
    [StaticObject EXCEPT
       !.name = LongName,
       !.numExpressions = COUNTOF_expressions,
       !.expressions = [j \in ExpressionSlots |->
                          [name |-> LongExpressionName, portrait |-> NULL]]]

SizeKinds == {TownPlayer, FullObject}

SizeInit ==
    \E kind \in SizeKinds :
        /\ objects = [k \in 0 .. COUNTOF_objects - 1 |->
                        IF k = 0 THEN kind ELSE StaticObject]
        /\ numObjects = 1
        /\ refs = AcquireAll(NoRefs, OwnedHandles(kind))
        /\ lastSavedOrLoadedScene = "test"
        /\ logged = LogLoaded
        /\ ub = FALSE
        /\ disk = TownDisk
        /\ selectedObject = NullIndex
        /\ edits = 0
        /\ writes = 0
        /\ saved = NoSnapshot
        /\ stack = <<StackEntry("PLAYING", NullIndex), StackEntry("EDITOR", NullIndex)>>
        /\ talkingObject = NullIndex
        /\ paragraphIndex = 0
        /\ commandIndex = [f \in ScriptFiles |-> 0]
        /\ cameraTrauma = 0
        /\ cameraTraumaFalloff = 0
        /\ devMode = TRUE
        /\ playingView = View(objects, numObjects)
        /\ lastCommand = NoCommand

\* The "Clone" button of the last row: no row is shifted.
SizeClone ==
    /\ EditorOpen
    /\ numObjects < COUNTOF_objects
    /\ LET c == Clone(refs, objects[numObjects - 1])
       IN  /\ objects' = [objects EXCEPT ![numObjects] = c.object]
           /\ refs' = c.refs
    /\ numObjects' = numObjects + 1
    /\ lastCommand' = NoCommand
    /\ UNCHANGED <<selectedObject, disk, lastSavedOrLoadedScene, logged, ub, edits, writes,
                   saved, gameVars>>

\* The console command `save`, the file written.
SizeSave ==
    /\ EditorOpen
    /\ HandleSaveCommand(<<>>, TRUE)
    /\ UNCHANGED <<selectedObject, edits, writes, saved, gameVars, lastCommand>>

SizeNext ==
    \/ SizeClone
    \/ SizeSave

SizeSpec == SizeInit /\ [][SizeNext]_vars

\* WriteString(&stream, text): the characters and their terminator; a length
\* written in front of them would take more.
StringBytes(text) == Len(text) + 1

RECURSIVE SumTo(_, _)
\* f[0] + ... + f[n - 1]
SumTo(f, n) == IF n <= 0 THEN 0 ELSE f[n - 1] + SumTo(f, n - 1)

\* The bytes the loop body of SaveScene writes for one object: WriteFloat and
\* WriteInt take 4 each.
ObjectSize(o) ==
    StringBytes(o.name) + 4 + 4 + 4 + 4 + 4
    + StringBytes(GetAssetPath(o.script)) + StringBytes(GetAssetPath(o.collisionMap))
    + SumTo([d \in Directions |-> StringBytes(GetAssetPath(o.sprites[d]))],
            DIRECTION_ENUM_COUNT)
    + SumTo([j \in ExpressionSlots |->
                StringBytes(o.expressions[j].name)
                + StringBytes(GetAssetPath(o.expressions[j].portrait))],
            COUNTOF_expressions)

\* stream.cursor at the end of SaveScene: the magic, the version, the count
\* and the objects.
SceneSize(objs, n) == 4 + 4 + 4 + SumTo([k \in 0 .. n - 1 |-> ObjectSize(objs[k])], n)

\* C39: whenever the scene is saved, the bytes SaveScene writes fit in the
\* buffer it allocated.
C39_SceneFitsBuffer ==
    [][SizeSave => SceneSize(objects, numObjects) <= maxBytes]_vars

====
